---- MODULE Spec2Model ----
(***************************************************************************)
(* Model of the Foundry Local discovery subsystem (foundry-service.js) and *)
(* of its callers in main.js.                                              *)
(*                                                                         *)
(* Text (command output, endpoints, URLs) is a sequence of one-character   *)
(* strings, so that the regular expressions and the URL handling of the    *)
(* source are computed character by character.                             *)
(*                                                                         *)
(* Every `await` of the source is a suspension point: the synchronous code *)
(* between two awaits is one action.  A setTimeout delay is a suspension   *)
(* point like the others; the clock advances by the action Tick, at any    *)
(* moment.  The callback of exec('foundry service start') only logs and is *)
(* not a step of the model.  The status command, the HTTP peer             *)
(* and the clock are the environment; a local file system that works is    *)
(* assumed (fs calls do not throw), so the catch blocks of                 *)
(* readCachedEndpoint and cacheEndpoint are entered for malformed content  *)
(* only.                                                                   *)
(***************************************************************************)
EXTENDS Integers, Sequences, FiniteSets, TLC

(***************************************************************************)
(* Bounds of the model                                                     *)
(***************************************************************************)
\* number of clock advances the environment may make
MaxTicks == 1

(***************************************************************************)
(* Program constants                                                       *)
(***************************************************************************)
\* const maxRetries = 60
maxRetries == 60
\* 24 * 60 * 60 * 1000 ms, the freshness window of readCachedEndpoint
CACHE_TTL == 24 * 60 * 60 * 1000

(***************************************************************************)
(* Characters                                                              *)
(***************************************************************************)
Digits == {"0", "1", "2", "3", "4", "5", "6", "7", "8", "9"}
DigitSeq == <<"0", "1", "2", "3", "4", "5", "6", "7", "8", "9">>
\* \s of a JavaScript regular expression, as far as the modelled texts go
Spaces == {" ", "\t", "\n"}

DigitVal(ch) == CHOOSE d \in 0..9 : DigitSeq[d + 1] = ch

RECURSIVE NatToChars(_)
\* String(n) / template literal `${n}` for a non-negative integer
NatToChars(n) ==
    IF n < 10 THEN <<DigitSeq[n + 1]>>
    ELSE NatToChars(n \div 10) \o <<DigitSeq[(n % 10) + 1]>>

RECURSIVE CharsToNat(_)
\* parseInt(s, 10) for a non-empty sequence of digits
CharsToNat(s) ==
    IF Len(s) = 0 THEN 0
    ELSE 10 * CharsToNat(SubSeq(s, 1, Len(s) - 1)) + DigitVal(s[Len(s)])

\* case-insensitive comparison of one character with a lower-case letter
EqI(ch, lower, upper) == ch = lower \/ ch = upper

\* the text s has the literal lit at position i
HasAt(s, i, lit) ==
    /\ i >= 1
    /\ i + Len(lit) - 1 <= Len(s)
    /\ \A k \in 1..Len(lit) : s[i + k - 1] = lit[k]

\* s.startsWith(lit)
StartsWith(s, lit) == HasAt(s, 1, lit)

\* position after the longest run of characters of class cls starting at i
RECURSIVE RunEnd(_, _, _)
RunEnd(s, i, cls) ==
    IF i <= Len(s) /\ s[i] \in cls THEN RunEnd(s, i + 1, cls) ELSE i

\* position after the longest run of characters NOT in class cls, from i
RECURSIVE RunEndNot(_, _, _)
RunEndNot(s, i, cls) ==
    IF i <= Len(s) /\ s[i] \notin cls THEN RunEndNot(s, i + 1, cls) ELSE i

\* "http://127.0.0.1:"
LOOPBACK == <<"h","t","t","p",":","/","/","1","2","7",".","0",".","0",".","1",":">>

(***************************************************************************)
(* The regular expressions of queryServiceFromCLI.  A match is the pair    *)
(* <<first, last>> of positions of the matched text, <<0, 0>> is "no       *)
(* match" (String.prototype.match returned null).                          *)
(***************************************************************************)
NoMatch == <<0, 0>>

\* position after "http", optional "s", "://" read at position i; 0 if absent
SchemeEnd(s, i) ==
    IF /\ i + 3 <= Len(s)
       /\ EqI(s[i], "h", "H") /\ EqI(s[i + 1], "t", "T")
       /\ EqI(s[i + 2], "t", "T") /\ EqI(s[i + 3], "p", "P")
    THEN LET j == IF i + 4 <= Len(s) /\ EqI(s[i + 4], "s", "S")
                  THEN i + 5 ELSE i + 4
         IN  IF HasAt(s, j, <<":", "/", "/">>) THEN j + 3 ELSE 0
    ELSE 0

\* as FullUrlAt, but the match runs on through the path of the URL
FullUrlAt_WithPath(s, i) ==
    LET h == SchemeEnd(s, i)
    IN  IF h = 0 THEN 0
        ELSE LET r  == RunEndNot(s, h, Spaces \cup {"/"})
                 ks == {k \in (h + 1)..(r - 2) :
                           s[k] = ":" /\ s[k + 1] \in Digits}
             IN  IF ks = {} THEN 0
                 ELSE RunEndNot(s, r, Spaces) - 1

\* /http[s]?:\/\/[^\s/]+:\d+/i anchored at position i: last position or 0
FullUrlAt(s, i) ==
    LET h == SchemeEnd(s, i)
    IN  IF h = 0 THEN 0
        ELSE LET r  == RunEndNot(s, h, Spaces \cup {"/"})
                 \* positions of a ":" that ends a non-empty [^\s/]+ and is
                 \* followed by a digit
                 ks == {k \in (h + 1)..(r - 2) :
                           s[k] = ":" /\ s[k + 1] \in Digits}
             IN  IF ks = {} THEN 0
                 ELSE LET k == CHOOSE x \in ks : \A y \in ks : y <= x
                      IN  RunEnd(s, k + 1, Digits) - 1

\* stdout.match(/http[s]?:\/\/[^\s/]+:\d+/i)
fullUrlMatch(s) ==
    LET is == {i \in 1..Len(s) : FullUrlAt(s, i) # 0}
    IN  IF is = {} THEN NoMatch
        ELSE LET i == CHOOSE x \in is : \A y \in is : x <= y
             IN  <<i, FullUrlAt(s, i)>>

\* /:\s*(\d+)/ anchored at position i: <<first, last>> of the group, or NoMatch
PortAt(s, i) ==
    IF i <= Len(s) /\ s[i] = ":"
    THEN LET d == RunEnd(s, i + 1, Spaces)
             e == RunEnd(s, d, Digits)
         IN  IF e > d THEN <<d, e - 1>> ELSE NoMatch
    ELSE NoMatch

\* stdout.match(/:\s*(\d+)/), the captured group
portMatch(s) ==
    LET is == {i \in 1..Len(s) : PortAt(s, i) # NoMatch}
    IN  IF is = {} THEN NoMatch
        ELSE PortAt(s, CHOOSE x \in is : \A y \in is : x <= y)

\* fullUrl.match(/:(\d+)$/), the captured group
portSuffixMatch(s) ==
    LET is == {i \in 1..Len(s) :
                 /\ s[i] = ":"
                 /\ i < Len(s)
                 /\ \A k \in (i + 1)..Len(s) : s[k] \in Digits}
    IN  IF is = {} THEN NoMatch
        ELSE LET i == CHOOSE x \in is : \A y \in is : x <= y
             IN  <<i + 1, Len(s)>>

\* /http[s]?:\/\/[^\s]+/i anchored at position i: last position or 0
UrlAt(s, i) ==
    LET h == SchemeEnd(s, i)
    IN  IF h = 0 THEN 0
        ELSE LET r == RunEndNot(s, h, Spaces)
             IN  IF r > h THEN r - 1 ELSE 0

\* stdout.match(/http[s]?:\/\/[^\s]+/i)
urlMatch(s) ==
    LET is == {i \in 1..Len(s) : UrlAt(s, i) # 0}
    IN  IF is = {} THEN NoMatch
        ELSE LET i == CHOOSE x \in is : \A y \in is : x <= y
             IN  <<i, UrlAt(s, i)>>

\* the text of a match
Matched(s, m) == SubSeq(s, m[1], m[2])

(***************************************************************************)
(* Runs of `foundry service status`.  A run is the outcome of execAsync:   *)
(* failed = TRUE when the command errors or exceeds its 2 s timeout, else  *)
(* stdout is its output and json is what JSON.parse(stdout) gives for it.  *)
(***************************************************************************)
JUndef == [t |-> "undefined"]
JNum(n) == [t |-> "number", n |-> n]
JStr(str) == [t |-> "string", s |-> str]
JBool(b) == [t |-> "boolean", b |-> b]

\* JavaScript truthiness of a decoded JSON value
Truthy(v) ==
    CASE v.t = "undefined" -> FALSE
      [] v.t = "number"    -> v.n # 0
      [] v.t = "string"    -> v.s # <<>>
      [] v.t = "boolean"   -> v.b

\* JSON.parse threw
JSyntaxError == [kind |-> "SyntaxError"]
\* JSON.parse returned an object with these values of the four fields read
JObject(port, status, running, url) ==
    [kind |-> "object", port |-> port, status |-> status,
     running |-> running, url |-> url]

\* "running", "stopped" as decoded JSON strings
STATUS_RUNNING == <<"r", "u", "n", "n", "i", "n", "g">>
STATUS_STOPPED == <<"s", "t", "o", "p", "p", "e", "d">>

\* {"port":5273,"status":"running"}
TXT_JSON_RUNNING ==
    << "{", "\"", "p", "o", "r", "t", "\"", ":", "5", "2", "7", "3", ",",
       "\"", "s", "t", "a", "t", "u", "s", "\"", ":", "\"", "r", "u", "n",
       "n", "i", "n", "g", "\"", "}" >>

\* {"port":5273,"status":"stopped"}
TXT_JSON_STOPPED ==
    << "{", "\"", "p", "o", "r", "t", "\"", ":", "5", "2", "7", "3", ",",
       "\"", "s", "t", "a", "t", "u", "s", "\"", ":", "\"", "s", "t", "o",
       "p", "p", "e", "d", "\"", "}" >>

\* {"url":"http://localhost:5273/v1"}
TXT_JSON_URL ==
    << "{", "\"", "u", "r", "l", "\"", ":", "\"", "h", "t", "t", "p", ":",
       "/", "/", "l", "o", "c", "a", "l", "h", "o", "s", "t", ":", "5",
       "2", "7", "3", "/", "v", "1", "\"", "}" >>

\* {"status":"stopped","pid":1234}
TXT_JSON_OTHER ==
    << "{", "\"", "s", "t", "a", "t", "u", "s", "\"", ":", "\"", "s", "t",
       "o", "p", "p", "e", "d", "\"", ",", "\"", "p", "i", "d", "\"", ":",
       "1", "2", "3", "4", "}" >>

\* running on http://127.0.0.1:55329/openai/status
TXT_RUNNING_ON ==
    << "r", "u", "n", "n", "i", "n", "g", " ", "o", "n", " ", "h", "t",
       "t", "p", ":", "/", "/", "1", "2", "7", ".", "0", ".", "0", ".",
       "1", ":", "5", "5", "3", "2", "9", "/", "o", "p", "e", "n", "a",
       "i", "/", "s", "t", "a", "t", "u", "s" >>

\* Service is not running
TXT_NOT_RUNNING ==
    << "S", "e", "r", "v", "i", "c", "e", " ", "i", "s", " ", "n", "o",
       "t", " ", "r", "u", "n", "n", "i", "n", "g" >>

\* http://localhost:5273/v1
URL_LOCALHOST_V1 ==
    << "h", "t", "t", "p", ":", "/", "/", "l", "o", "c", "a", "l", "h",
       "o", "s", "t", ":", "5", "2", "7", "3", "/", "v", "1" >>


ExecFailed == [failed |-> TRUE, stdout |-> <<>>, json |-> JSyntaxError]
ExecOk(stdout, json) == [failed |-> FALSE, stdout |-> stdout, json |-> json]

\* the outputs of the status command the environment chooses from
StatusRuns ==
    { ExecFailed,
      ExecOk(TXT_JSON_RUNNING,
             JObject(JNum(5273), JStr(STATUS_RUNNING), JUndef, JUndef)),
      ExecOk(TXT_JSON_STOPPED,
             JObject(JNum(5273), JStr(STATUS_STOPPED), JUndef, JUndef)),
      ExecOk(TXT_JSON_URL,
             JObject(JUndef, JUndef, JUndef, JStr(URL_LOCALHOST_V1))),
      ExecOk(TXT_RUNNING_ON, JSyntaxError),
      ExecOk(TXT_NOT_RUNNING, JSyntaxError) }

(***************************************************************************)
(* queryServiceFromCLI: the result {endpoint, port, isRunning} for a run   *)
(* of the status command (the raw field is not modelled, no caller reads   *)
(* it).  endpoint null is NoEndpoint, port null is NoPort.                 *)
(***************************************************************************)
NoEndpoint == <<>>
NoPort == -1

QueryResult(endpoint, port, isRunning) ==
    [endpoint |-> endpoint, port |-> port, isRunning |-> isRunning]

\* as ParseText, but a text that matches nothing gives the default endpoint
ParseText_DefaultEndpoint(stdout) ==
    LET full == fullUrlMatch(stdout)
        pm   == portMatch(stdout)
        um   == urlMatch(stdout)
    IN  IF full # NoMatch
        THEN LET fullUrl == Matched(stdout, full)
                 sfx     == portSuffixMatch(fullUrl)
             IN  QueryResult(fullUrl,
                             IF sfx # NoMatch
                             THEN CharsToNat(Matched(fullUrl, sfx))
                             ELSE NoPort,
                             TRUE)
        ELSE IF pm # NoMatch
        THEN LET port == CharsToNat(Matched(stdout, pm))
             IN  QueryResult(LOOPBACK \o NatToChars(port), port, TRUE)
        ELSE IF um # NoMatch
        THEN QueryResult(Matched(stdout, um), NoPort, TRUE)
        ELSE QueryResult(LOOPBACK \o NatToChars(5273), 5273, FALSE)

\* the text strategies, tried when JSON decoding gave no result
ParseText(stdout) ==
    LET full == fullUrlMatch(stdout)
        pm   == portMatch(stdout)
        um   == urlMatch(stdout)
    IN  IF full # NoMatch
        THEN LET fullUrl == Matched(stdout, full)
                 sfx     == portSuffixMatch(fullUrl)
             IN  QueryResult(fullUrl,
                             IF sfx # NoMatch
                             THEN CharsToNat(Matched(fullUrl, sfx))
                             ELSE NoPort,
                             TRUE)
        ELSE IF pm # NoMatch
        THEN LET port == CharsToNat(Matched(stdout, pm))
             IN  QueryResult(LOOPBACK \o NatToChars(port), port, TRUE)
        ELSE IF um # NoMatch
        THEN QueryResult(Matched(stdout, um), NoPort, TRUE)
        ELSE QueryResult(NoEndpoint, NoPort, FALSE)

\* as queryServiceFromCLI, but a port in the JSON output means "running"
queryServiceFromCLI_PortMeansRunning(run) ==
    IF run.failed
    THEN QueryResult(NoEndpoint, NoPort, FALSE)
    ELSE IF run.json.kind = "object" /\ Truthy(run.json.port)
    THEN QueryResult(LOOPBACK \o NatToChars(run.json.port.n),
                     run.json.port.n,
                     TRUE)
    ELSE IF run.json.kind = "object" /\ Truthy(run.json.url)
    THEN QueryResult(run.json.url.s, NoPort, TRUE)
    ELSE ParseText(run.stdout)

queryServiceFromCLI(run) ==
    IF run.failed
    THEN QueryResult(NoEndpoint, NoPort, FALSE)
    ELSE IF run.json.kind = "object" /\ Truthy(run.json.port)
    THEN QueryResult(LOOPBACK \o NatToChars(run.json.port.n),
                     run.json.port.n,
                     \/ run.json.status = JStr(STATUS_RUNNING)
                     \/ run.json.running = JBool(TRUE))
    ELSE IF run.json.kind = "object" /\ Truthy(run.json.url)
    THEN QueryResult(run.json.url.s, NoPort, TRUE)
    ELSE ParseText(run.stdout)

(***************************************************************************)
(* new URL(text), as far as the source reads it: whether the text          *)
(* parses, and the protocol, hostname, port and pathname of the result.    *)
(* Schemes and hosts are taken as written: the modelled texts have         *)
(* lower-case schemes and hosts that are names or dotted quads, and no     *)
(* credentials, backslashes or percent escapes.                            *)
(***************************************************************************)
LowerLetters ==
    {"a", "b", "c", "d", "e", "f", "g", "h", "i", "j", "k", "l", "m",
     "n", "o", "p", "q", "r", "s", "t", "u", "v", "w", "x", "y", "z"}
UpperLetters ==
    {"A", "B", "C", "D", "E", "F", "G", "H", "I", "J", "K", "L", "M",
     "N", "O", "P", "Q", "R", "S", "T", "U", "V", "W", "X", "Y", "Z"}
Letters == LowerLetters \cup UpperLetters
\* characters that may follow the first letter of a scheme
SchemeChars == Letters \cup Digits \cup {"+", "-", "."}

HTTP == <<"h", "t", "t", "p">>
HTTPS == <<"h", "t", "t", "p", "s">>

InvalidURL ==
    [ok |-> FALSE, protocol |-> <<>>, hostname |-> <<>>, port |-> <<>>,
     pathname |-> <<>>]

\* the default port of a special scheme, as text
DefaultPort(scheme) == IF scheme = HTTP THEN <<"8", "0">> ELSE <<"4", "4", "3">>

\* last position of ch in s, 0 if none
LastIndexOf(s, ch) ==
    LET is == {i \in 1..Len(s) : s[i] = ch}
    IN  IF is = {} THEN 0 ELSE CHOOSE x \in is : \A y \in is : y <= x

\* remove leading zeros of a port, keeping one digit
RECURSIVE TrimZeros(_)
TrimZeros(d) ==
    IF Len(d) > 1 /\ d[1] = "0" THEN TrimZeros(Tail(d)) ELSE d

\* host and port of the authority text auth of a URL with this scheme;
\* ok is FALSE where the URL parser fails
ParseAuthority(scheme, auth) ==
    LET special == scheme \in {HTTP, HTTPS}
        k    == LastIndexOf(auth, ":")
        host == IF k = 0 THEN auth ELSE SubSeq(auth, 1, k - 1)
        prt  == IF k = 0 THEN <<>> ELSE SubSeq(auth, k + 1, Len(auth))
    IN  IF \/ (special /\ host = <<>>)
           \/ (host = <<>> /\ k # 0)
           \/ \E i \in 1..Len(host) : host[i] \in Spaces \cup {":"}
           \/ \E i \in 1..Len(prt) : prt[i] \notin Digits
           \/ Len(TrimZeros(prt)) > 5
           \/ (prt # <<>> /\ CharsToNat(prt) > 65535)
        THEN [ok |-> FALSE, hostname |-> <<>>, port |-> <<>>]
        ELSE [ok |-> TRUE, hostname |-> host,
              port |-> IF prt = <<>>
                          \/ (special /\ TrimZeros(prt) = DefaultPort(scheme))
                       THEN <<>> ELSE TrimZeros(prt)]

ParseURL(text) ==
    IF Len(text) = 0 \/ text[1] \notin Letters THEN InvalidURL
    ELSE
    LET c == RunEnd(text, 2, SchemeChars)       \* position of the ":"
    IN  IF c > Len(text) \/ text[c] # ":" THEN InvalidURL
        ELSE
        LET scheme  == SubSeq(text, 1, c - 1)
            special == scheme \in {HTTP, HTTPS}
            \* a special scheme skips any slashes; another scheme has an
            \* authority only after "//"
            hasAuth == special \/ HasAt(text, c + 1, <<"/", "/">>)
            a       == IF special THEN RunEnd(text, c + 1, {"/"}) ELSE c + 3
            e       == IF hasAuth
                       THEN RunEndNot(text, a, {"/", "?", "#"})
                       ELSE c + 1
            q       == RunEndNot(text, e, {"?", "#"})   \* end of the path + 1
            auth    == IF hasAuth THEN SubSeq(text, a, e - 1) ELSE <<>>
            pa      == ParseAuthority(scheme, auth)
            path    == SubSeq(text, e, q - 1)
        IN  IF ~pa.ok THEN InvalidURL
            ELSE [ok |-> TRUE, protocol |-> scheme \o <<":">>,
                  hostname |-> pa.hostname,
                  port |-> pa.port,
                  pathname |-> IF special /\ path = <<>> THEN <<"/">>
                               ELSE path]

\* url.host: the hostname, and the port when the URL has one
UrlHost(url) ==
    url.hostname \o (IF url.port # <<>> THEN <<":">> \o url.port ELSE <<>>)

(***************************************************************************)
(* verifyEndpoint.  The peer answers a probe with some HTTP response, with *)
(* a network error, or not before the timeout.                             *)
(***************************************************************************)
ProbeOutcomes == {"response", "error", "timeout"}

\* "/v1/models"
V1_MODELS == <<"/", "v", "1", "/", "m", "o", "d", "e", "l", "s">>

\* the options of the http.request that verifyEndpoint issues for url
ProbeOptions(url) ==
    LET parsedUrl == ParseURL(url)
    IN  [hostname |-> parsedUrl.hostname,
         port     |-> IF parsedUrl.port # <<>> THEN parsedUrl.port
                      ELSE <<"8", "0">>,
         path     |-> IF parsedUrl.pathname # <<>> /\ parsedUrl.pathname # <<"/">>
                      THEN parsedUrl.pathname ELSE V1_MODELS]

(***************************************************************************)
(* normalizeEndpoint                                                       *)
(***************************************************************************)
\* position of the first "/" of s, Len(s) + 1 if none
FirstSlash(s) == RunEndNot(s, 1, {"/"})

\* the textual transform of the catch block (the modelled texts have no line
\* terminator, so /\/.*$/ matches from the first "/" to the end)
NormalizeFallback(endpoint) ==
    LET e1 == IF Len(endpoint) > 0 /\ endpoint[Len(endpoint)] = "/"
              THEN SubSeq(endpoint, 1, Len(endpoint) - 1) ELSE endpoint
        e2 == SubSeq(e1, 1, FirstSlash(e1) - 1)
        e3 == IF /\ ~StartsWith(e2, HTTP \o <<":", "/", "/">>)
                 /\ ~StartsWith(e2, HTTPS \o <<":", "/", "/">>)
              THEN HTTP \o <<":", "/", "/">> \o e2 ELSE e2
    IN  IF StartsWith(e3, HTTPS \o <<":">>)
        THEN HTTP \o SubSeq(e3, 6, Len(e3)) ELSE e3

\* normalizeEndpoint(endpoint); null is NoEndpoint
normalizeEndpoint(endpoint) ==
    IF endpoint = <<>> THEN NoEndpoint
    ELSE LET url == ParseURL(endpoint)
         IN  IF url.ok
             THEN url.protocol \o <<"/", "/">> \o url.hostname
                    \o (IF url.port # <<>> THEN <<":">> \o url.port ELSE <<>>)
             ELSE NormalizeFallback(endpoint)

\* what each run of the status command is parsed to
StatusResults == [run \in StatusRuns |-> queryServiceFromCLI(run)]

(***************************************************************************)
(* The endpoint cache file (endpoint-cache.json).                          *)
(***************************************************************************)
\* fs.existsSync(cacheFile) is false
CacheMissing == [kind |-> "missing"]
\* the file exists and JSON.parse of its content throws
CacheGarbage == [kind |-> "garbage"]
\* the file holds a JSON object with these endpoint and timestamp values
CacheObject(endpoint, timestamp) ==
    [kind |-> "object", endpoint |-> endpoint, timestamp |-> timestamp]

\* readCachedEndpoint returning the endpoint of any entry that has one
readCachedEndpoint_AnyEntry(file, t) ==
    IF file.kind = "object" /\ Truthy(file.endpoint)
    THEN file.endpoint.s
    ELSE NoEndpoint

\* readCachedEndpoint with the freshness test written `age <= 24h`
readCachedEndpoint_Inclusive(file, t) ==
    IF /\ file.kind = "object"
       /\ Truthy(file.endpoint)
       /\ Truthy(file.timestamp)
       /\ t - file.timestamp.n <= CACHE_TTL
    THEN file.endpoint.s
    ELSE NoEndpoint

\* readCachedEndpoint() on the file, at time t (Date.now())
readCachedEndpoint(file, t) ==
    IF /\ file.kind = "object"
       /\ Truthy(file.endpoint)
       /\ Truthy(file.timestamp)
       /\ t - file.timestamp.n < CACHE_TTL
    THEN file.endpoint.s
    ELSE NoEndpoint

\* cacheEndpoint replacing the endpoint of an entry and keeping its timestamp
cacheEndpoint_KeepTimestamp(file, endpoint, t) ==
    IF endpoint = NoEndpoint THEN file
    ELSE IF file.kind = "object"
    THEN CacheObject(JStr(endpoint), file.timestamp)
    ELSE CacheObject(JStr(endpoint), JNum(t))

\* cacheEndpoint storing the timestamp in seconds
cacheEndpoint_Seconds(file, endpoint, t) ==
    IF endpoint = NoEndpoint THEN file
    ELSE CacheObject(JStr(endpoint), JNum(t \div 1000))

\* the file after cacheEndpoint(endpoint) at time t
cacheEndpoint(file, endpoint, t) ==
    IF endpoint = NoEndpoint THEN file
    ELSE CacheObject(JStr(endpoint), JNum(t))

\* "http://127.0.0.1:5273"
URL_LOOPBACK_5273 == LOOPBACK \o <<"5", "2", "7", "3">>

\* whether new URL(url) succeeds, tabulated for the endpoints that the status
\* runs report, the cache files hold and the handler normalizes to
UrlParses ==
    [url \in {URL_LOOPBACK_5273, LOOPBACK \o <<"5", "5", "3", "2", "9">>,
              URL_LOCALHOST_V1,
              SubSeq(URL_LOCALHOST_V1, 1, Len(URL_LOCALHOST_V1) - 3)}
        |-> ParseURL(url).ok]

\* the value verifyEndpoint(url) resolves, given what the peer does
verifyEndpoint(url, outcome) ==
    IF ~(IF url \in DOMAIN UrlParses THEN UrlParses[url] ELSE ParseURL(url).ok)
    THEN FALSE
    ELSE outcome = "response"

(***************************************************************************)
(* State                                                                   *)
(***************************************************************************)
\* the calls that may be in flight at once
Callers == {1, 2}
\* the caller of the specifications that have one call in flight
Solo == {1}

VARIABLES
    now,             \* Date.now(), in ms
    ticks,           \* clock advances made so far
    cacheFile,       \* content of endpoint-cache.json
    pc,              \* per call: the await the call is suspended at
    op,              \* per call: the function called
    cachedEndpoint,  \* discoverFoundryService: const cachedEndpoint
    cachedValid,     \* discoverFoundryService: isValid of the cached endpoint
    statusResult,    \* startFoundryService: statusResult / checkResult
    retryCount,      \* startFoundryService: let retryCount
    startResult,     \* the value startFoundryService returned
    cliResult,       \* discoverFoundryService: const cliResult
    isValid,         \* discoverFoundryService: isValid of cliResult.endpoint
    result,          \* the value discoverFoundryService returned
    launches,        \* per call: `foundry service start` commands issued
    queries,         \* per call: `foundry service status` commands issued
    probes,          \* per call: HTTP probes issued
    writes,          \* per call: cache files written
    normInput,       \* normalizeEndpoint: the argument of a first call
    normOnce,        \* normalizeEndpoint(normInput)
    normTwice,       \* normalizeEndpoint(normalizeEndpoint(normInput))
    cliRun,          \* queryServiceFromCLI: a run of the status command
    cliParsed,       \* queryServiceFromCLI: the value returned for cliRun
    probeUrl,        \* verifyEndpoint: the url argument
    probeReq,        \* verifyEndpoint: the state of the HTTP request
    probeStatus,     \* verifyEndpoint: status code of the response, 0 if none
    probeResolved,   \* verifyEndpoint: the value the promise is resolved with
    probeCalls,      \* verifyEndpoint: number of calls of resolve
    modelsEndpoint,  \* getAvailableModels: the endpoint argument
    modelsReq,       \* getAvailableModels: the state of the HTTP request
    modelsBody,      \* getAvailableModels: the body received from the peer
    modelsResolved,  \* getAvailableModels: the value the promise holds
    customServiceEndpoint,  \* main.js: the custom endpoint, NoEndpoint if null
    hpc,             \* set-foundry-endpoint: where the handler is
    hNormalized,     \* set-foundry-endpoint: the local `normalized`
    launchCmd,       \* per call: the `foundry service start` child process
    waited,          \* per call: milliseconds of setTimeout delays awaited
    foundryServiceEndpoint, \* main.js: the auto-discovered endpoint
    ipc,             \* initializeFoundryService: where the run is
    iStartResult,    \* initializeFoundryService: the local `startResult`
    initStatus,      \* the status last sent as 'foundry-init-status'
    configReply      \* the value last returned by get-foundry-config

\* the variables of one use of normalizeEndpoint
normVars == <<normInput, normOnce, normTwice>>

\* the variables that discoverFoundryService and startFoundryService neither
\* read nor write
\* the variables of one use of queryServiceFromCLI
parserVars == <<cliRun, cliParsed>>

\* the variables of one call of verifyEndpoint
probeVars == <<probeUrl, probeReq, probeStatus, probeResolved, probeCalls>>

\* the variables of one call of getAvailableModels
modelsVars == <<modelsEndpoint, modelsReq, modelsBody, modelsResolved>>

\* the custom endpoint and the set-foundry-endpoint handler
appVars == <<customServiceEndpoint, hpc, hNormalized>>

\* the auto-discovered endpoint, initializeFoundryService and the reply of
\* get-foundry-config
mainVars == <<foundryServiceEndpoint, ipc, iStartResult, initStatus,
              configReply>>

sideVars == <<normVars, parserVars, probeVars, modelsVars, appVars, mainVars>>

vars == <<now, ticks, cacheFile, pc, op, cachedEndpoint, cachedValid,
          statusResult, retryCount, startResult, cliResult, isValid, result,
          launches, queries, probes, writes, launchCmd, waited, sideVars>>

clockVars == <<now, ticks>>
discoverLocals == <<cachedEndpoint, cachedValid, cliResult, isValid, result>>
startLocals == <<statusResult, retryCount, startResult>>
counters == <<launches, queries, probes, writes>>
launchVars == <<launchCmd, waited>>

\* a local that has no value yet
Unset == [set |-> FALSE]
Val(v) == [set |-> TRUE, v |-> v]

StartOutcome(started, wasAlreadyRunning, message) ==
    [started |-> started, wasAlreadyRunning |-> wasAlreadyRunning,
     message |-> message]

MSG_ALREADY(endpoint) == <<"Service already running on ", endpoint>>
MSG_STARTED(endpoint) == <<"Service started on ", endpoint>>
MSG_TIMEOUT == <<"Service start timeout - please check manually">>

DiscoveryResult(endpoint, port, running) ==
    [endpoint |-> endpoint, port |-> port, isRunning |-> running]

\* the cache files a run of the application may find on disk
InitialCacheFiles ==
    { CacheMissing,
      CacheGarbage,
      CacheObject(JStr(URL_LOOPBACK_5273), JUndef),
      CacheObject(JUndef, JNum(CACHE_TTL)),
      CacheObject(JStr(URL_LOOPBACK_5273), JNum(CACHE_TTL)) }

\* the amounts of time the environment lets pass at once
TickSteps == {CACHE_TTL - 1, CACHE_TTL}

\* no call of discoverFoundryService or startFoundryService is in flight
NoCall ==
    /\ now = CACHE_TTL
    /\ ticks = 0
    /\ pc = [c \in Callers |-> "idle"]
    /\ op = [c \in Callers |-> "none"]
    /\ cachedEndpoint = [c \in Callers |-> Unset]
    /\ cachedValid = [c \in Callers |-> Unset]
    /\ statusResult = [c \in Callers |-> Unset]
    /\ retryCount = [c \in Callers |-> 0]
    /\ startResult = [c \in Callers |-> Unset]
    /\ cliResult = [c \in Callers |-> Unset]
    /\ isValid = [c \in Callers |-> Unset]
    /\ result = [c \in Callers |-> Unset]
    /\ launches = [c \in Callers |-> 0]
    /\ queries = [c \in Callers |-> 0]
    /\ probes = [c \in Callers |-> 0]
    /\ writes = [c \in Callers |-> 0]
    /\ launchCmd = [c \in Callers |-> "none"]
    /\ waited = [c \in Callers |-> 0]

\* normalizeEndpoint is not in use
NormIdle ==
    /\ normInput = <<>>
    /\ normOnce = Unset
    /\ normTwice = Unset

\* queryServiceFromCLI is not in use
ParserIdle ==
    /\ cliRun = ExecFailed
    /\ cliParsed = Unset

\* verifyEndpoint has not been called
ProbeIdle ==
    /\ probeUrl = <<>>
    /\ probeReq = "idle"
    /\ probeStatus = 0
    /\ probeResolved = Unset
    /\ probeCalls = 0

\* getAvailableModels has not been called
ModelsIdle ==
    /\ modelsEndpoint = <<>>
    /\ modelsReq = "idle"
    /\ modelsBody = [kind |-> "none"]
    /\ modelsResolved = Unset

\* no custom endpoint is set and the handler is not running
AppIdle ==
    /\ customServiceEndpoint = NoEndpoint
    /\ hpc = "idle"
    /\ hNormalized = <<>>

\* initializeFoundryService has not run and get-foundry-config was not asked
MainIdle ==
    /\ foundryServiceEndpoint = NoEndpoint
    /\ ipc = "idle"
    /\ iStartResult = Unset
    /\ initStatus = "none"
    /\ configReply = Unset

Init ==
    /\ cacheFile \in InitialCacheFiles
    /\ NoCall
    /\ NormIdle
    /\ ParserIdle
    /\ ProbeIdle
    /\ ModelsIdle
    /\ AppIdle /\ MainIdle

(***************************************************************************)
(* startFoundryService                                                     *)
(***************************************************************************)
\* startFoundryService() up to its first await: the status query is issued
EnterStart(c) ==
    /\ queries' = [queries EXCEPT ![c] = @ + 1]
    /\ pc' = [pc EXCEPT ![c] = "startCheck"]

\* startFoundryService returns outcome: to discoverFoundryService, which
\* then awaits its 1 s delay, or to the caller
ReturnStart(c, outcome) ==
    /\ startResult' = [startResult EXCEPT ![c] = Val(outcome)]
    /\ pc' = [pc EXCEPT ![c] = IF op[c] = "discover" THEN "settle" ELSE "done"]

\* the loop head written `retryCount <= maxRetries`
LoopHead_OffByOne(c) ==
    IF retryCount[c] <= maxRetries
    THEN /\ retryCount' = [retryCount EXCEPT ![c] = @ + 1]
         /\ queries' = [queries EXCEPT ![c] = @ + 1]
         /\ pc' = [pc EXCEPT ![c] = "poll"]
         /\ UNCHANGED startResult
    ELSE /\ ReturnStart(c, StartOutcome(FALSE, FALSE, MSG_TIMEOUT))
         /\ UNCHANGED <<retryCount, queries>>

\* the loop giving up with the bare message "timeout"
LoopHead_BareMessage(c) ==
    IF retryCount[c] < maxRetries
    THEN /\ retryCount' = [retryCount EXCEPT ![c] = @ + 1]
         /\ queries' = [queries EXCEPT ![c] = @ + 1]
         /\ pc' = [pc EXCEPT ![c] = "poll"]
         /\ UNCHANGED startResult
    ELSE /\ ReturnStart(c, StartOutcome(FALSE, FALSE, <<"timeout">>))
         /\ UNCHANGED <<retryCount, queries>>

\* the head of `while (retryCount < maxRetries)`
LoopHead(c) ==
    IF retryCount[c] < maxRetries
    THEN /\ retryCount' = [retryCount EXCEPT ![c] = @ + 1]
         /\ queries' = [queries EXCEPT ![c] = @ + 1]
         /\ pc' = [pc EXCEPT ![c] = "poll"]
         /\ UNCHANGED startResult
    ELSE /\ ReturnStart(c, StartOutcome(FALSE, FALSE, MSG_TIMEOUT))
         /\ UNCHANGED <<retryCount, queries>>

\* the first check with the launch command issued before the test
StartCheckDone_LaunchFirst(c, run) ==
    /\ pc[c] = "startCheck"
    /\ LET r == StatusResults[run]
       IN  /\ statusResult' = [statusResult EXCEPT ![c] = Val(r)]
           /\ launches' = [launches EXCEPT ![c] = @ + 1]
           /\ launchCmd' = [launchCmd EXCEPT ![c] = "running"]
           /\ IF r.isRunning /\ r.endpoint # NoEndpoint
              THEN ReturnStart(c, StartOutcome(FALSE, TRUE,
                                               MSG_ALREADY(r.endpoint)))
              ELSE /\ pc' = [pc EXCEPT ![c] = "grace"]
                   /\ UNCHANGED startResult
    /\ UNCHANGED <<sideVars, clockVars, cacheFile, op, discoverLocals, retryCount,
                   queries, probes, writes, waited>>

\* the first status query returns
StartCheckDone(c, run) ==
    /\ pc[c] = "startCheck"
    /\ LET r == StatusResults[run]
       IN  /\ statusResult' = [statusResult EXCEPT ![c] = Val(r)]
           /\ IF r.isRunning /\ r.endpoint # NoEndpoint
              THEN /\ ReturnStart(c, StartOutcome(FALSE, TRUE,
                                                  MSG_ALREADY(r.endpoint)))
                   /\ UNCHANGED <<launches, launchCmd>>
              ELSE \* exec('foundry service start') is issued and not awaited;
                   \* the call goes on to the 2 s delay
                   /\ launches' = [launches EXCEPT ![c] = @ + 1]
                   /\ launchCmd' = [launchCmd EXCEPT ![c] = "running"]
                   /\ pc' = [pc EXCEPT ![c] = "grace"]
                   /\ UNCHANGED startResult
    /\ UNCHANGED <<sideVars, clockVars, cacheFile, op, discoverLocals, retryCount,
                   queries, probes, writes, waited>>

\* the delay before the first poll lasting 1 s
GraceDone_OneSecond(c) ==
    /\ pc[c] = "grace"
    /\ waited' = [waited EXCEPT ![c] = @ + 1000]
    /\ LoopHead(c)
    /\ UNCHANGED <<sideVars, clockVars, cacheFile, op, discoverLocals, statusResult,
                   launches, probes, writes, launchCmd>>

\* the 2 s delay is over
GraceDone(c) ==
    /\ pc[c] = "grace"
    /\ waited' = [waited EXCEPT ![c] = @ + 2000]
    /\ LoopHead(c)
    /\ UNCHANGED <<sideVars, clockVars, cacheFile, op, discoverLocals, statusResult,
                   launches, probes, writes, launchCmd>>

\* the poll test written without `checkResult.isRunning`
PollDone_EndpointOnly(c, run) ==
    /\ pc[c] = "poll"
    /\ LET r == StatusResults[run]
       IN  /\ statusResult' = [statusResult EXCEPT ![c] = Val(r)]
           /\ IF r.endpoint # NoEndpoint
              THEN ReturnStart(c, StartOutcome(TRUE, FALSE,
                                               MSG_STARTED(r.endpoint)))
              ELSE /\ pc' = [pc EXCEPT ![c] = "pollWait"]
                   /\ UNCHANGED startResult
    /\ UNCHANGED <<sideVars, clockVars, cacheFile, op, discoverLocals, retryCount,
                   counters, launchVars>>

\* a poll query returns
PollDone(c, run) ==
    /\ pc[c] = "poll"
    /\ LET r == StatusResults[run]
       IN  /\ statusResult' = [statusResult EXCEPT ![c] = Val(r)]
           /\ IF r.isRunning /\ r.endpoint # NoEndpoint
              THEN ReturnStart(c, StartOutcome(TRUE, FALSE,
                                               MSG_STARTED(r.endpoint)))
              ELSE /\ pc' = [pc EXCEPT ![c] = "pollWait"]
                   /\ UNCHANGED startResult
    /\ UNCHANGED <<sideVars, clockVars, cacheFile, op, discoverLocals, retryCount,
                   counters, launchVars>>

\* the loop body without `retryCount++`
PollWaitDone_NoIncrement(c) ==
    /\ pc[c] = "pollWait"
    /\ waited' = [waited EXCEPT ![c] = @ + 1000]
    /\ queries' = [queries EXCEPT ![c] = @ + 1]
    /\ pc' = [pc EXCEPT ![c] = "poll"]
    /\ UNCHANGED <<sideVars, clockVars, cacheFile, op, discoverLocals, startLocals,
                   launches, probes, writes, launchCmd>>

\* the 1 s delay at the end of the loop body is over
PollWaitDone(c) ==
    /\ pc[c] = "pollWait"
    /\ waited' = [waited EXCEPT ![c] = @ + 1000]
    /\ LoopHead(c)
    /\ UNCHANGED <<sideVars, clockVars, cacheFile, op, discoverLocals, statusResult,
                   launches, probes, writes, launchCmd>>

\* the `foundry service start` command exits and its callback runs: it logs
\* the error, stdout and stderr, and touches nothing else
LaunchExit(c) ==
    /\ launchCmd[c] = "running"
    /\ launchCmd' = [launchCmd EXCEPT ![c] = "exited"]
    /\ UNCHANGED <<sideVars, clockVars, cacheFile, pc, op, discoverLocals,
                   startLocals, counters, waited>>

(***************************************************************************)
(* discoverFoundryService                                                  *)
(***************************************************************************)
\* a caller calls discoverFoundryService(): the cache is read, and the
\* cached endpoint is probed or startFoundryService is entered
CallDiscover(c) ==
    /\ pc[c] = "idle"
    /\ op' = [op EXCEPT ![c] = "discover"]
    /\ LET cached == readCachedEndpoint(cacheFile, now)
       IN  /\ cachedEndpoint' = [cachedEndpoint EXCEPT ![c] = Val(cached)]
           /\ IF cached # NoEndpoint
              THEN /\ probes' = [probes EXCEPT ![c] = @ + 1]
                   /\ pc' = [pc EXCEPT ![c] = "verifyCached"]
                   /\ UNCHANGED queries
              ELSE /\ EnterStart(c)
                   /\ UNCHANGED probes
    /\ UNCHANGED <<sideVars, clockVars, cacheFile, cachedValid, cliResult, isValid,
                   result, startLocals, launches, writes, launchVars>>

\* a caller calls startFoundryService() directly
CallStart(c) ==
    /\ pc[c] = "idle"
    /\ op' = [op EXCEPT ![c] = "start"]
    /\ EnterStart(c)
    /\ UNCHANGED <<sideVars, clockVars, cacheFile, discoverLocals, startLocals,
                   launches, probes, writes, launchVars>>

\* the fast path without its `return`
VerifyCachedDone_NoReturn(c, outcome) ==
    /\ pc[c] = "verifyCached"
    /\ LET v == verifyEndpoint(cachedEndpoint[c].v, outcome)
       IN  /\ cachedValid' = [cachedValid EXCEPT ![c] = Val(v)]
           /\ EnterStart(c)
           /\ UNCHANGED result
    /\ UNCHANGED <<sideVars, clockVars, cacheFile, op, cachedEndpoint, cliResult,
                   isValid, startLocals, launches, probes, writes, launchVars>>

\* the fast path with a cacheEndpoint(cachedEndpoint) before its `return`
VerifyCachedDone_Refresh(c, outcome) ==
    /\ pc[c] = "verifyCached"
    /\ LET v == verifyEndpoint(cachedEndpoint[c].v, outcome)
       IN  /\ cachedValid' = [cachedValid EXCEPT ![c] = Val(v)]
           /\ IF v
              THEN /\ result' = [result EXCEPT ![c] =
                         Val(DiscoveryResult(cachedEndpoint[c].v, NoPort, TRUE))]
                   /\ cacheFile' = cacheEndpoint(cacheFile,
                                                 cachedEndpoint[c].v, now)
                   /\ pc' = [pc EXCEPT ![c] = "done"]
                   /\ UNCHANGED queries
              ELSE /\ EnterStart(c)
                   /\ UNCHANGED <<result, cacheFile>>
    /\ UNCHANGED <<sideVars, clockVars, op, cachedEndpoint, cliResult,
                   isValid, startLocals, launches, probes, writes, launchVars>>

\* the dead cached endpoint evicted: the cache file is deleted
VerifyCachedDone_Evict(c, outcome) ==
    /\ pc[c] = "verifyCached"
    /\ LET v == verifyEndpoint(cachedEndpoint[c].v, outcome)
       IN  /\ cachedValid' = [cachedValid EXCEPT ![c] = Val(v)]
           /\ IF v
              THEN /\ result' = [result EXCEPT ![c] =
                         Val(DiscoveryResult(cachedEndpoint[c].v, NoPort, TRUE))]
                   /\ pc' = [pc EXCEPT ![c] = "done"]
                   /\ UNCHANGED <<queries, cacheFile>>
              ELSE /\ EnterStart(c)
                   /\ cacheFile' = CacheMissing
                   /\ UNCHANGED result
    /\ UNCHANGED <<sideVars, clockVars, op, cachedEndpoint, cliResult,
                   isValid, startLocals, launches, probes, writes, launchVars>>

\* the probe of the cached endpoint resolves
VerifyCachedDone(c, outcome) ==
    /\ pc[c] = "verifyCached"
    /\ LET v == verifyEndpoint(cachedEndpoint[c].v, outcome)
       IN  /\ cachedValid' = [cachedValid EXCEPT ![c] = Val(v)]
           /\ IF v
              THEN /\ result' = [result EXCEPT ![c] =
                         Val(DiscoveryResult(cachedEndpoint[c].v, NoPort, TRUE))]
                   /\ pc' = [pc EXCEPT ![c] = "done"]
                   /\ UNCHANGED queries
              ELSE /\ EnterStart(c)
                   /\ UNCHANGED result
    /\ UNCHANGED <<sideVars, clockVars, cacheFile, op, cachedEndpoint, cliResult,
                   isValid, startLocals, launches, probes, writes, launchVars>>

\* the discovery giving up when startFoundryService reported a timeout
SettleDone_GiveUpOnTimeout(c) ==
    /\ pc[c] = "settle"
    /\ IF ~startResult[c].v.started /\ ~startResult[c].v.wasAlreadyRunning
       THEN /\ result' = [result EXCEPT ![c] =
                  Val(DiscoveryResult(NoEndpoint, NoPort, FALSE))]
            /\ pc' = [pc EXCEPT ![c] = "done"]
            /\ UNCHANGED queries
       ELSE /\ queries' = [queries EXCEPT ![c] = @ + 1]
            /\ pc' = [pc EXCEPT ![c] = "finalQuery"]
            /\ UNCHANGED result
    /\ UNCHANGED <<sideVars, clockVars, cacheFile, op, cachedEndpoint, cachedValid,
                   cliResult, isValid, startLocals, launches, probes, writes,
                   launchVars>>

\* the 1 s delay after startFoundryService is over: the final status query
SettleDone(c) ==
    /\ pc[c] = "settle"
    /\ queries' = [queries EXCEPT ![c] = @ + 1]
    /\ pc' = [pc EXCEPT ![c] = "finalQuery"]
    /\ UNCHANGED <<sideVars, clockVars, cacheFile, op, discoverLocals, startLocals,
                   launches, probes, writes, launchVars>>

\* the final query with the missing endpoint raised as an error: the call
\* ends without a value
FinalQueryDone_Throw(c, run) ==
    /\ pc[c] = "finalQuery"
    /\ LET r == StatusResults[run]
       IN  /\ cliResult' = [cliResult EXCEPT ![c] = Val(r)]
           /\ IF r.endpoint = NoEndpoint
              THEN /\ pc' = [pc EXCEPT ![c] = "done"]
                   /\ UNCHANGED <<probes, result>>
              ELSE /\ probes' = [probes EXCEPT ![c] = @ + 1]
                   /\ pc' = [pc EXCEPT ![c] = "finalVerify"]
                   /\ UNCHANGED result
    /\ UNCHANGED <<sideVars, clockVars, cacheFile, op, cachedEndpoint, cachedValid,
                   isValid, startLocals, launches, queries, writes, launchVars>>

\* the final query without the `if (!cliResult.endpoint)` return
FinalQueryDone_ProbeAnyway(c, run) ==
    /\ pc[c] = "finalQuery"
    /\ LET r == StatusResults[run]
       IN  /\ cliResult' = [cliResult EXCEPT ![c] = Val(r)]
           /\ probes' = [probes EXCEPT ![c] = @ + 1]
           /\ pc' = [pc EXCEPT ![c] = "finalVerify"]
           /\ UNCHANGED result
    /\ UNCHANGED <<sideVars, clockVars, cacheFile, op, cachedEndpoint, cachedValid,
                   isValid, startLocals, launches, queries, writes, launchVars>>

\* the final status query returns
FinalQueryDone(c, run) ==
    /\ pc[c] = "finalQuery"
    /\ LET r == StatusResults[run]
       IN  /\ cliResult' = [cliResult EXCEPT ![c] = Val(r)]
           /\ IF r.endpoint = NoEndpoint
              THEN /\ result' = [result EXCEPT ![c] =
                         Val(DiscoveryResult(NoEndpoint, r.port, FALSE))]
                   /\ pc' = [pc EXCEPT ![c] = "done"]
                   /\ UNCHANGED probes
              ELSE /\ probes' = [probes EXCEPT ![c] = @ + 1]
                   /\ pc' = [pc EXCEPT ![c] = "finalVerify"]
                   /\ UNCHANGED result
    /\ UNCHANGED <<sideVars, clockVars, cacheFile, op, cachedEndpoint, cachedValid,
                   isValid, startLocals, launches, queries, writes, launchVars>>

\* the final verification with the cache written before the test of isValid
FinalVerifyDone_CacheBeforeVerify(c, outcome) ==
    /\ pc[c] = "finalVerify"
    /\ LET r == cliResult[c].v
           v == verifyEndpoint(r.endpoint, outcome)
       IN  /\ isValid' = [isValid EXCEPT ![c] = Val(v)]
           /\ result' = [result EXCEPT ![c] =
                 Val(DiscoveryResult(r.endpoint, r.port, v))]
           /\ cacheFile' = cacheEndpoint(cacheFile, r.endpoint, now)
           /\ writes' = [writes EXCEPT ![c] = @ + 1]
    /\ pc' = [pc EXCEPT ![c] = "done"]
    /\ UNCHANGED <<sideVars, clockVars, op, cachedEndpoint, cachedValid, cliResult,
                   startLocals, launches, queries, probes, launchVars>>

\* the final verification also requiring the isRunning flag of the parser
FinalVerifyDone_ParserFlag(c, outcome) ==
    /\ pc[c] = "finalVerify"
    /\ LET r == cliResult[c].v
           v == verifyEndpoint(r.endpoint, outcome)
       IN  /\ isValid' = [isValid EXCEPT ![c] = Val(v)]
           /\ result' = [result EXCEPT ![c] =
                 Val(DiscoveryResult(r.endpoint, r.port,
                                     v /\ r.isRunning))]
           /\ IF v
              THEN /\ cacheFile' = cacheEndpoint(cacheFile, r.endpoint, now)
                   /\ writes' = [writes EXCEPT ![c] = @ + 1]
              ELSE UNCHANGED <<cacheFile, writes>>
    /\ pc' = [pc EXCEPT ![c] = "done"]
    /\ UNCHANGED <<sideVars, clockVars, op, cachedEndpoint, cachedValid, cliResult,
                   startLocals, launches, queries, probes, launchVars>>

\* the probe of the discovered endpoint resolves
FinalVerifyDone(c, outcome) ==
    /\ pc[c] = "finalVerify"
    /\ LET r == cliResult[c].v
           v == verifyEndpoint(r.endpoint, outcome)
       IN  /\ isValid' = [isValid EXCEPT ![c] = Val(v)]
           /\ result' = [result EXCEPT ![c] =
                 Val(DiscoveryResult(r.endpoint, r.port, v))]
           /\ IF v
              THEN /\ cacheFile' = cacheEndpoint(cacheFile, r.endpoint, now)
                   /\ writes' = [writes EXCEPT ![c] = @ + 1]
              ELSE UNCHANGED <<cacheFile, writes>>
    /\ pc' = [pc EXCEPT ![c] = "done"]
    /\ UNCHANGED <<sideVars, clockVars, op, cachedEndpoint, cachedValid, cliResult,
                   startLocals, launches, queries, probes, launchVars>>

\* the caller has taken the returned value; the call's frame is gone, and
\* the launch command it issued is followed no further
Return(c) ==
    /\ pc[c] = "done"
    /\ pc' = [pc EXCEPT ![c] = "idle"]
    /\ op' = [op EXCEPT ![c] = "none"]
    /\ cachedEndpoint' = [cachedEndpoint EXCEPT ![c] = Unset]
    /\ cachedValid' = [cachedValid EXCEPT ![c] = Unset]
    /\ statusResult' = [statusResult EXCEPT ![c] = Unset]
    /\ retryCount' = [retryCount EXCEPT ![c] = 0]
    /\ startResult' = [startResult EXCEPT ![c] = Unset]
    /\ cliResult' = [cliResult EXCEPT ![c] = Unset]
    /\ isValid' = [isValid EXCEPT ![c] = Unset]
    /\ result' = [result EXCEPT ![c] = Unset]
    /\ launches' = [launches EXCEPT ![c] = 0]
    /\ queries' = [queries EXCEPT ![c] = 0]
    /\ probes' = [probes EXCEPT ![c] = 0]
    /\ writes' = [writes EXCEPT ![c] = 0]
    /\ launchCmd' = [launchCmd EXCEPT ![c] = "none"]
    /\ waited' = [waited EXCEPT ![c] = 0]
    /\ UNCHANGED <<sideVars, clockVars, cacheFile>>

(***************************************************************************)
(* Environment                                                             *)
(***************************************************************************)
\* time passes
Tick(d) ==
    /\ ticks < MaxTicks
    /\ ticks' = ticks + 1
    /\ now' = now + d
    /\ UNCHANGED <<sideVars, cacheFile, pc, op, discoverLocals, startLocals,
                   counters, launchVars>>

Next ==
    \/ \E c \in Solo : CallDiscover(c)
    \/ \E c \in Solo : CallStart(c)
    \/ \E c \in Solo, o \in ProbeOutcomes : VerifyCachedDone(c, o)
    \/ \E c \in Solo, run \in StatusRuns : StartCheckDone(c, run)
    \/ \E c \in Solo : GraceDone(c)
    \/ \E c \in Solo, run \in StatusRuns : PollDone(c, run)
    \/ \E c \in Solo : PollWaitDone(c)
    \/ \E c \in Solo : SettleDone(c)
    \/ \E c \in Solo, run \in StatusRuns : FinalQueryDone(c, run)
    \/ \E c \in Solo, o \in ProbeOutcomes : FinalVerifyDone(c, o)
    \/ \E c \in Solo : Return(c)
    \/ \E d \in TickSteps : Tick(d)

Spec == Init /\ [][Next]_vars

\* a pending status query, liveness probe or delay of call c completes
Progress(c) ==
    \/ \E o \in ProbeOutcomes : VerifyCachedDone(c, o)
    \/ \E run \in StatusRuns : StartCheckDone(c, run)
    \/ GraceDone(c)
    \/ \E run \in StatusRuns : PollDone(c, run)
    \/ PollWaitDone(c)
    \/ SettleDone(c)
    \/ \E run \in StatusRuns : FinalQueryDone(c, run)
    \/ \E o \in ProbeOutcomes : FinalVerifyDone(c, o)

\* the discovery under the assumption that every status query and every
\* liveness probe returns (both have timeouts) and every delay elapses
FairSpec == Spec /\ \A c \in Solo : WF_vars(Progress(c))

(***************************************************************************)
(* normalizeEndpoint applied to an endpoint text, and to its own result.   *)
(***************************************************************************)
\* the endpoint texts: a scheme, a host, a port and a path, each possibly
\* absent or malformed
NormSchemes == { <<>>, HTTP \o <<":", "/", "/">>, HTTPS \o <<":", "/", "/">> }
NormHosts == { <<>>, <<"h">>, <<"1", "2", "7", ".", "0", ".", "0", ".", "1">> }
NormPorts ==
    { <<>>, <<":", "8", "0">>, <<":", "4", "4", "3">>,
      <<":", "5", "2", "7", "3">>, <<":", "x">> }
NormPaths ==
    { <<>>, <<"/">>,
      <<"/", "s", "o", "m", "e", "/", "p", "a", "t", "h", "/">> }

NormParts ==
    [scheme : NormSchemes, host : NormHosts, port : NormPorts,
     path : NormPaths]

NormText(p) == p.scheme \o p.host \o p.port \o p.path

\* the non-empty endpoint texts
NormInputs == {NormText(p) : p \in NormParts} \ {<<>>}

InitNorm ==
    /\ cacheFile = CacheMissing
    /\ NoCall
    /\ AppIdle /\ MainIdle
    /\ ParserIdle
    /\ ProbeIdle
    /\ ModelsIdle
    /\ normInput \in NormInputs
    /\ normOnce = Unset
    /\ normTwice = Unset

\* const normalized = normalizeEndpoint(endpoint)
NormalizeOnce ==
    /\ ~normOnce.set
    /\ normOnce' = Val(normalizeEndpoint(normInput))
    /\ UNCHANGED <<normInput, normTwice, parserVars, probeVars, modelsVars>>
    /\ UNCHANGED <<clockVars, cacheFile, pc, op, discoverLocals, startLocals,
                   counters, appVars, launchVars,
                   mainVars>>

\* the result is normalized again
NormalizeAgain ==
    /\ normOnce.set
    /\ ~normTwice.set
    /\ normTwice' = Val(normalizeEndpoint(normOnce.v))
    /\ UNCHANGED <<normInput, normOnce, parserVars, probeVars, modelsVars>>
    /\ UNCHANGED <<clockVars, cacheFile, pc, op, discoverLocals, startLocals,
                   counters, appVars, launchVars,
                   mainVars>>

NextNorm ==
    \/ NormalizeOnce
    \/ NormalizeAgain

SpecNorm == InitNorm /\ [][NextNorm]_vars

(***************************************************************************)
(* queryServiceFromCLI applied to one run of the status command.           *)
(***************************************************************************)
\* "port":
KEY_PORT ==
    << "\"", "p", "o", "r", "t", "\"", ":" >>

\* "status":
KEY_STATUS ==
    << "\"", "s", "t", "a", "t", "u", "s", "\"", ":" >>

\* "running":
KEY_RUNNING ==
    << "\"", "r", "u", "n", "n", "i", "n", "g", "\"", ":" >>

\* "url":
KEY_URL ==
    << "\"", "u", "r", "l", "\"", ":" >>

\* "pid":
KEY_PID ==
    << "\"", "p", "i", "d", "\"", ":" >>

\* true
LIT_TRUE ==
    << "t", "r", "u", "e" >>

\* false
LIT_FALSE ==
    << "f", "a", "l", "s", "e" >>

\* the text of a decoded JSON value (JSON.stringify)
JText(v) ==
    CASE v.t = "number"  -> NatToChars(v.n)
      [] v.t = "string"  -> <<"\"">> \o v.s \o <<"\"">>
      [] v.t = "boolean" -> IF v.b THEN LIT_TRUE ELSE LIT_FALSE

\* the members "key":value of the object, for the fields that are present
JMembers(obj, pid) ==
    SelectSeq(<< <<KEY_PORT, obj.port>>, <<KEY_STATUS, obj.status>>,
                 <<KEY_RUNNING, obj.running>>, <<KEY_URL, obj.url>>,
                 <<KEY_PID, pid>> >>,
              LAMBDA m : m[2] # JUndef)

RECURSIVE JJoin(_)
\* the members separated by commas
JJoin(ms) ==
    IF ms = <<>> THEN <<>>
    ELSE ms[1][1] \o JText(ms[1][2])
           \o (IF Len(ms) > 1 THEN <<",">> \o JJoin(Tail(ms)) ELSE <<>>)

\* the JSON text of an object with the four fields read by the parser and
\* a field pid that it does not read
Stringify(obj, pid) == <<"{">> \o JJoin(JMembers(obj, pid)) \o <<"}">>

\* the status command prints the object as JSON
JsonRun(obj, pid) == ExecOk(Stringify(obj, pid), obj)

\* JSON.parse returned null, or a number
JNull == [kind |-> "null"]
JScalar == [kind |-> "number"]

\* Status: OK\nService is running on http://127.0.0.1:55329/openai/status\n
TXT_STATUS_LINES ==
    << "S", "t", "a", "t", "u", "s", ":", " ", "O", "K", "\n", "S", "e",
       "r", "v", "i", "c", "e", " ", "i", "s", " ", "r", "u", "n", "n",
       "i", "n", "g", " ", "o", "n", " ", "h", "t", "t", "p", ":", "/",
       "/", "1", "2", "7", ".", "0", ".", "0", ".", "1", ":", "5", "5",
       "3", "2", "9", "/", "o", "p", "e", "n", "a", "i", "/", "s", "t",
       "a", "t", "u", "s", "\n" >>

\* Service running on port 51679
TXT_PORT_WORD ==
    << "S", "e", "r", "v", "i", "c", "e", " ", "r", "u", "n", "n", "i",
       "n", "g", " ", "o", "n", " ", "p", "o", "r", "t", " ", "5", "1",
       "6", "7", "9" >>

\* port: 51679
TXT_PORT_COLON ==
    << "p", "o", "r", "t", ":", " ", "5", "1", "6", "7", "9" >>

\* see http://localhost/status
TXT_URL_NO_PORT ==
    << "s", "e", "e", " ", "h", "t", "t", "p", ":", "/", "/", "l", "o",
       "c", "a", "l", "h", "o", "s", "t", "/", "s", "t", "a", "t", "u",
       "s" >>

\* null
TXT_JSON_NULL ==
    << "n", "u", "l", "l" >>

\* 55329
TXT_JSON_NUMBER ==
    << "5", "5", "3", "2", "9" >>

\* http://127.0.0.1:55329/openai/status
URL_LOOPBACK_55329_STATUS ==
    << "h", "t", "t", "p", ":", "/", "/", "1", "2", "7", ".", "0", ".",
       "0", ".", "1", ":", "5", "5", "3", "2", "9", "/", "o", "p", "e",
       "n", "a", "i", "/", "s", "t", "a", "t", "u", "s" >>

\* http://localhost/status
URL_LOCALHOST_STATUS ==
    << "h", "t", "t", "p", ":", "/", "/", "l", "o", "c", "a", "l", "h",
       "o", "s", "t", "/", "s", "t", "a", "t", "u", "s" >>

\* proxy http://localhost:80 running on http://127.0.0.1:55329/openai/status
TXT_TWO_URLS ==
    << "p", "r", "o", "x", "y", " ", "h", "t", "t", "p", ":", "/", "/",
       "l", "o", "c", "a", "l", "h", "o", "s", "t", ":", "8", "0", " ",
       "r", "u", "n", "n", "i", "n", "g", " ", "o", "n", " ", "h", "t",
       "t", "p", ":", "/", "/", "1", "2", "7", ".", "0", ".", "0", ".",
       "1", ":", "5", "5", "3", "2", "9", "/", "o", "p", "e", "n", "a",
       "i", "/", "s", "t", "a", "t", "u", "s" >>

\* the objects the status command may print
StatusObjects ==
    { JObject(port, status, running, url) :
        port \in {JUndef, JNum(0), JNum(5273)},
        status \in {JUndef, JStr(STATUS_RUNNING), JStr(STATUS_STOPPED)},
        running \in {JUndef, JBool(TRUE), JBool(FALSE)},
        url \in {JUndef, JStr(URL_LOCALHOST_V1)} }

\* the runs of the status command given to the parser
ParserRuns ==
    {JsonRun(obj, pid) : obj \in StatusObjects, pid \in {JUndef, JNum(1234)}}
    \cup StatusRuns
    \cup { ExecOk(TXT_STATUS_LINES, JSyntaxError),
           ExecOk(TXT_PORT_WORD, JSyntaxError),
           ExecOk(TXT_PORT_COLON, JSyntaxError),
           ExecOk(TXT_URL_NO_PORT, JSyntaxError),
           ExecOk(TXT_TWO_URLS, JSyntaxError),
           ExecOk(<<>>, JSyntaxError),
           ExecOk(TXT_JSON_NULL, JNull),
           ExecOk(TXT_JSON_NUMBER, JScalar) }

InitParser ==
    /\ cacheFile = CacheMissing
    /\ NoCall
    /\ AppIdle /\ MainIdle
    /\ NormIdle
    /\ ProbeIdle
    /\ ModelsIdle
    /\ cliRun \in ParserRuns
    /\ cliParsed = Unset

\* queryServiceFromCLI() returns for the run
ParseStatus ==
    /\ ~cliParsed.set
    /\ cliParsed' = Val(queryServiceFromCLI(cliRun))
    /\ UNCHANGED <<cliRun, normVars, probeVars, modelsVars>>
    /\ UNCHANGED <<clockVars, cacheFile, pc, op, discoverLocals, startLocals,
                   counters, appVars, launchVars,
                   mainVars>>

NextParser == ParseStatus

SpecParser == InitParser /\ [][NextParser]_vars

(***************************************************************************)
(* verifyEndpoint as the events of its HTTP request.  The request is       *)
(* "idle" before the call, "invalid" when new URL(url) threw, "pending"    *)
(* once issued, "responded" after the response callback, "destroyed"       *)
(* after the timeout handler called req.destroy(), "closed" after the      *)
(* 'error' event.                                                          *)
(***************************************************************************)
\* the status codes a peer answers with
StatusCodes == {200, 404, 500}

\* the urls verifyEndpoint is called with
ProbeUrls == NormInputs

InitProbe ==
    /\ cacheFile = CacheMissing
    /\ NoCall
    /\ AppIdle /\ MainIdle
    /\ NormIdle
    /\ ParserIdle
    /\ ModelsIdle
    /\ probeUrl \in ProbeUrls
    /\ probeReq = "idle"
    /\ probeStatus = 0
    /\ probeResolved = Unset
    /\ probeCalls = 0

\* resolve(v) with every call of it taking effect
Resolve_LastWins(v) ==
    /\ probeResolved' = Val(v)
    /\ probeCalls' = probeCalls + 1

\* resolve(v): the first call settles the promise, later calls do nothing
Resolve(v) ==
    /\ probeResolved' = IF probeResolved.set THEN probeResolved ELSE Val(v)
    /\ probeCalls' = probeCalls + 1

\* the executor of the promise: the url is parsed and the request issued,
\* or new URL throws and the catch block resolves false
ProbeStart ==
    /\ probeReq = "idle"
    /\ IF ParseURL(probeUrl).ok
       THEN /\ probeReq' = "pending"
            /\ UNCHANGED <<probeResolved, probeCalls>>
       ELSE /\ probeReq' = "invalid"
            /\ Resolve(FALSE)
    /\ UNCHANGED <<probeUrl, probeStatus, normVars, parserVars, modelsVars>>
    /\ UNCHANGED <<clockVars, cacheFile, pc, op, discoverLocals, startLocals,
                   counters, appVars, launchVars,
                   mainVars>>

\* the peer answers with a status code: the response callback
ProbeResponse(code) ==
    /\ probeReq = "pending"
    /\ probeReq' = "responded"
    /\ probeStatus' = code
    /\ Resolve(TRUE)
    /\ UNCHANGED <<probeUrl, normVars, parserVars, modelsVars>>
    /\ UNCHANGED <<clockVars, cacheFile, pc, op, discoverLocals, startLocals,
                   counters, appVars, launchVars,
                   mainVars>>

\* the 'error' event of the request: a network error, or the socket hang
\* up that follows req.destroy() when no response has arrived
ProbeError ==
    /\ \/ probeReq \in {"pending", "responded"}
       \/ probeReq = "destroyed" /\ probeStatus = 0
    /\ probeReq' = "closed"
    /\ Resolve(FALSE)
    /\ UNCHANGED <<probeUrl, probeStatus, normVars, parserVars, modelsVars>>
    /\ UNCHANGED <<clockVars, cacheFile, pc, op, discoverLocals, startLocals,
                   counters, appVars, launchVars,
                   mainVars>>

\* the 'timeout' event of the request: the socket was idle for the timeout
ProbeTimeout ==
    /\ probeReq \in {"pending", "responded"}
    /\ probeReq' = "destroyed"
    /\ Resolve(FALSE)
    /\ UNCHANGED <<probeUrl, probeStatus, normVars, parserVars, modelsVars>>
    /\ UNCHANGED <<clockVars, cacheFile, pc, op, discoverLocals, startLocals,
                   counters, appVars, launchVars,
                   mainVars>>

NextProbe ==
    \/ ProbeStart
    \/ \E code \in StatusCodes : ProbeResponse(code)
    \/ ProbeError
    \/ ProbeTimeout

\* the timer of the request fires when nothing else happens to it
SpecProbe ==
    /\ InitProbe
    /\ [][NextProbe]_vars
    /\ WF_vars(ProbeTimeout)

(***************************************************************************)
(* getAvailableModels as the events of its HTTP request.  The request is   *)
(* "idle" before the call, "refused" when the endpoint is empty or not a   *)
(* URL, "pending" once issued, "receiving" after the response callback,    *)
(* "ended" after the 'end' event of the response, "destroyed" after the    *)
(* timeout handler called req.destroy(), "closed" after the 'error' event. *)
(***************************************************************************)
\* the longest list of models a peer sends
MaxModels == 2

\* "m1", "m2", "phi", "Phi", "stopped", "ms" as decoded JSON strings
ID_M1 == <<"m", "1">>
ID_M2 == <<"m", "2">>
ALIAS_PHI == <<"p", "h", "i">>
NAME_PHI == <<"P", "h", "i">>
OWNER_MS == <<"m", "s">>

\* an element of the data array that is an object with these fields
RawModel(id, alias, displayName, status, owned_by) ==
    [t |-> "object", id |-> id, alias |-> alias, displayName |-> displayName,
     status |-> status, owned_by |-> owned_by]

\* an element of the data array that is null
NullModel ==
    [t |-> "null", id |-> JUndef, alias |-> JUndef, displayName |-> JUndef,
     status |-> JUndef, owned_by |-> JUndef]

\* an element of the data array that is a number or a string: its spread
\* has none of the fields read
ScalarModel ==
    [t |-> "scalar", id |-> JUndef, alias |-> JUndef, displayName |-> JUndef,
     status |-> JUndef, owned_by |-> JUndef]

\* the objects a peer lists
RawModels ==
    { RawModel(JStr(ID_M1), JUndef, JUndef, JUndef, JUndef),
      RawModel(JStr(ID_M2), JStr(ALIAS_PHI), JStr(NAME_PHI),
               JStr(STATUS_STOPPED), JStr(OWNER_MS)),
      RawModel(JUndef, JStr(ALIAS_PHI), JUndef, JUndef, JStr(OWNER_MS)),
      RawModel(JStr(ID_M1), JStr(ID_M2), JUndef, JStr(STATUS_RUNNING),
               JUndef) }

\* the sequences over S of length at most n
SeqUpTo(S, n) == UNION {[1..k -> S] : k \in 0..n}

\* the bodies a peer sends: not JSON, an object without data, an object
\* whose data is not an array, an object whose data is an array
BodyGarbage == [kind |-> "garbage"]
BodyNoData == [kind |-> "object", data |-> "absent", list |-> <<>>]
BodyDataObject == [kind |-> "object", data |-> "object", list |-> <<>>]
BodyData(list) == [kind |-> "object", data |-> "array", list |-> list]

ModelsBodies ==
    {BodyGarbage, BodyNoData, BodyDataObject}
    \cup {BodyData(list) : list \in SeqUpTo(RawModels, MaxModels)}
    \cup {BodyData(<<NullModel>>)}
    \cup {BodyData(<<m, NullModel>>) : m \in RawModels}
    \cup {BodyData(<<ScalarModel>>)}
    \cup {BodyData(<<m, ScalarModel>>) : m \in RawModels}

\* "127.0.0.1:5273"
HOST_LOOPBACK_5273 == SubSeq(URL_LOOPBACK_5273, 8, Len(URL_LOOPBACK_5273))

\* the endpoints getAvailableModels is called with
ModelsEndpoints ==
    { NoEndpoint, URL_LOOPBACK_5273, URL_LOCALHOST_V1, URL_LOOPBACK_55329_STATUS,
      HOST_LOOPBACK_5273 }

\* `${parsedUrl.protocol}//${parsedUrl.host}` of the endpoint
ModelsBaseUrl(endpoint) ==
    LET parsedUrl == ParseURL(endpoint)
    IN  parsedUrl.protocol \o <<"/", "/">> \o UrlHost(parsedUrl)

\* the options of the request that getAvailableModels issues
ModelsOptions(endpoint) ==
    LET parsedUrl == ParseURL(ModelsBaseUrl(endpoint))
    IN  [hostname |-> parsedUrl.hostname,
         port     |-> IF parsedUrl.port # <<>> THEN CharsToNat(parsedUrl.port)
                      ELSE 80,
         path     |-> V1_MODELS]

\* the record made of a listed object, with the fields of the object
\* written after alias, displayName and status
Decorate_RawFieldsLast(model) ==
    [model EXCEPT
       !.alias = IF model.alias # JUndef THEN model.alias ELSE model.id,
       !.displayName = IF model.displayName # JUndef THEN model.displayName
                       ELSE model.id,
       !.status = IF model.status # JUndef THEN model.status
                  ELSE JStr(STATUS_RUNNING)]

\* { ...model, alias: model.id, displayName: model.id, status: 'running' }
Decorate(model) ==
    [model EXCEPT !.t = "object",
                  !.alias = model.id,
                  !.displayName = model.id,
                  !.status = JStr(STATUS_RUNNING)]

\* what the 'end' handler resolves for the body received
ModelsOfBody(body) ==
    IF body.kind # "object" THEN <<>>           \* JSON.parse threw
    ELSE IF body.data = "absent" THEN <<>>      \* json.data || []
    ELSE IF body.data # "array" THEN <<>>       \* models.map is not a function
    ELSE IF \E i \in 1..Len(body.list) : body.list[i].t = "null"
    THEN <<>>                                   \* model.id of null threw
    ELSE [i \in 1..Len(body.list) |-> Decorate(body.list[i])]

\* resolve(v) of the promise of getAvailableModels
ResolveModels(v) ==
    modelsResolved' = IF modelsResolved.set THEN modelsResolved ELSE Val(v)

InitModels ==
    /\ cacheFile = CacheMissing
    /\ NoCall
    /\ AppIdle /\ MainIdle
    /\ NormIdle
    /\ ParserIdle
    /\ ProbeIdle
    /\ modelsEndpoint \in ModelsEndpoints
    /\ modelsReq = "idle"
    /\ modelsBody = [kind |-> "none"]
    /\ modelsResolved = Unset

\* the executor of the promise: an empty endpoint and one that new URL
\* rejects resolve [], otherwise the request is issued
ModelsStart ==
    /\ modelsReq = "idle"
    /\ IF \/ modelsEndpoint = NoEndpoint
          \/ ~ParseURL(modelsEndpoint).ok
          \/ ~ParseURL(ModelsBaseUrl(modelsEndpoint)).ok
       THEN /\ modelsReq' = "refused"
            /\ ResolveModels(<<>>)
       ELSE /\ modelsReq' = "pending"
            /\ UNCHANGED modelsResolved
    /\ UNCHANGED <<modelsEndpoint, modelsBody, normVars, parserVars, probeVars>>
    /\ UNCHANGED <<clockVars, cacheFile, pc, op, discoverLocals, startLocals,
                   counters, appVars, launchVars,
                   mainVars>>

\* the response callback: the peer has answered and sends body
ModelsResponse(body) ==
    /\ modelsReq = "pending"
    /\ modelsReq' = "receiving"
    /\ modelsBody' = body
    /\ UNCHANGED <<modelsEndpoint, modelsResolved, normVars, parserVars,
                   probeVars>>
    /\ UNCHANGED <<clockVars, cacheFile, pc, op, discoverLocals, startLocals,
                   counters, appVars, launchVars,
                   mainVars>>

\* the 'end' event of the response: the body is decoded and resolved
ModelsEnd ==
    /\ modelsReq = "receiving"
    /\ modelsReq' = "ended"
    /\ ResolveModels(ModelsOfBody(modelsBody))
    /\ UNCHANGED <<modelsEndpoint, modelsBody, normVars, parserVars, probeVars>>
    /\ UNCHANGED <<clockVars, cacheFile, pc, op, discoverLocals, startLocals,
                   counters, appVars, launchVars,
                   mainVars>>

\* the 'error' event of the request
ModelsError ==
    /\ modelsReq \in {"pending", "receiving", "ended"}
    /\ modelsReq' = "closed"
    /\ ResolveModels(<<>>)
    /\ UNCHANGED <<modelsEndpoint, modelsBody, normVars, parserVars, probeVars>>
    /\ UNCHANGED <<clockVars, cacheFile, pc, op, discoverLocals, startLocals,
                   counters, appVars, launchVars,
                   mainVars>>

\* the 'timeout' event of the request: req.destroy() and resolve([])
ModelsTimeout ==
    /\ modelsReq \in {"pending", "receiving", "ended"}
    /\ modelsReq' = "destroyed"
    /\ ResolveModels(<<>>)
    /\ UNCHANGED <<modelsEndpoint, modelsBody, normVars, parserVars, probeVars>>
    /\ UNCHANGED <<clockVars, cacheFile, pc, op, discoverLocals, startLocals,
                   counters, appVars, launchVars,
                   mainVars>>

NextModels ==
    \/ ModelsStart
    \/ \E body \in ModelsBodies : ModelsResponse(body)
    \/ ModelsEnd
    \/ ModelsError
    \/ ModelsTimeout

SpecModels == InitModels /\ [][NextModels]_vars

(***************************************************************************)
(* The application: discoveries and the set-foundry-endpoint handler of    *)
(* main.js, which share the cache file.                                    *)
(***************************************************************************)
\* the endpoints a user sets: none (clear), a URL with a path, host:port
SetEndpointInputs == {<<>>, URL_LOCALHOST_V1, HOST_LOOPBACK_5273}

InitApp ==
    /\ cacheFile = CacheMissing
    /\ NoCall
    /\ NormIdle
    /\ ParserIdle
    /\ ProbeIdle
    /\ ModelsIdle
    /\ AppIdle /\ MainIdle

\* the handler probing the endpoint as the user typed it
SetEndpoint_NoNormalize(endpoint) ==
    /\ hpc = "idle"
    /\ IF endpoint = <<>>
       THEN /\ customServiceEndpoint' = NoEndpoint
            /\ UNCHANGED <<hpc, hNormalized>>
       ELSE /\ hNormalized' = endpoint
            /\ hpc' = "verifying"
            /\ UNCHANGED customServiceEndpoint
    /\ UNCHANGED <<normVars, parserVars, probeVars, modelsVars>>
    /\ UNCHANGED <<clockVars, cacheFile, pc, op, discoverLocals, startLocals,
                   counters, launchVars, mainVars>>

\* the handler writing the normalized endpoint to the cache before it
\* awaits the probe
SetEndpoint_CacheFirst(endpoint) ==
    /\ hpc = "idle"
    /\ IF endpoint = <<>>
       THEN /\ customServiceEndpoint' = NoEndpoint
            /\ UNCHANGED <<hpc, hNormalized, cacheFile>>
       ELSE /\ hNormalized' = normalizeEndpoint(endpoint)
            /\ cacheFile' = cacheEndpoint(cacheFile, normalizeEndpoint(endpoint),
                                          now)
            /\ hpc' = "verifying"
            /\ UNCHANGED customServiceEndpoint
    /\ UNCHANGED <<normVars, parserVars, probeVars, modelsVars>>
    /\ UNCHANGED <<clockVars, pc, op, discoverLocals, startLocals,
                   counters, launchVars, mainVars>>

\* set-foundry-endpoint is invoked: an empty endpoint clears the custom
\* endpoint and returns, another is normalized and its probe awaited
SetEndpoint(endpoint) ==
    /\ hpc = "idle"
    /\ IF endpoint = <<>>
       THEN /\ customServiceEndpoint' = NoEndpoint
            /\ UNCHANGED <<hpc, hNormalized>>
       ELSE /\ hNormalized' = normalizeEndpoint(endpoint)
            /\ hpc' = "verifying"
            /\ UNCHANGED customServiceEndpoint
    /\ UNCHANGED <<normVars, parserVars, probeVars, modelsVars>>
    /\ UNCHANGED <<clockVars, cacheFile, pc, op, discoverLocals, startLocals,
                   counters, launchVars, mainVars>>

\* the handler storing the endpoint whatever the probe said
SetEndpointVerified_CacheUnverified(outcome) ==
    /\ hpc = "verifying"
    /\ IF verifyEndpoint(hNormalized, outcome)
       THEN customServiceEndpoint' = hNormalized
       ELSE UNCHANGED customServiceEndpoint
    /\ cacheFile' = cacheEndpoint(cacheFile, hNormalized, now)
    /\ hpc' = "idle"
    /\ hNormalized' = <<>>
    /\ UNCHANGED <<normVars, parserVars, probeVars, modelsVars>>
    /\ UNCHANGED <<clockVars, pc, op, discoverLocals, startLocals, counters,
            launchVars, mainVars>>

\* the probe of the handler settles: a live endpoint becomes the custom
\* endpoint and is written to the cache, the handler returns
SetEndpointVerified(outcome) ==
    /\ hpc = "verifying"
    /\ IF verifyEndpoint(hNormalized, outcome)
       THEN /\ customServiceEndpoint' = hNormalized
            /\ cacheFile' = cacheEndpoint(cacheFile, hNormalized, now)
       ELSE UNCHANGED <<customServiceEndpoint, cacheFile>>
    /\ hpc' = "idle"
    /\ hNormalized' = <<>>
    /\ UNCHANGED <<normVars, parserVars, probeVars, modelsVars>>
    /\ UNCHANGED <<clockVars, pc, op, discoverLocals, startLocals, counters,
            launchVars, mainVars>>

NextApp ==
    \/ \E c \in Solo : CallDiscover(c)
    \/ \E c \in Solo, o \in ProbeOutcomes : VerifyCachedDone(c, o)
    \/ \E c \in Solo, run \in StatusRuns : StartCheckDone(c, run)
    \/ \E c \in Solo : GraceDone(c)
    \/ \E c \in Solo, run \in StatusRuns : PollDone(c, run)
    \/ \E c \in Solo : PollWaitDone(c)
    \/ \E c \in Solo : SettleDone(c)
    \/ \E c \in Solo, run \in StatusRuns : FinalQueryDone(c, run)
    \/ \E c \in Solo, o \in ProbeOutcomes : FinalVerifyDone(c, o)
    \/ \E c \in Solo : Return(c)
    \/ \E endpoint \in SetEndpointInputs : SetEndpoint(endpoint)
    \/ \E o \in ProbeOutcomes : SetEndpointVerified(o)

SpecApp == InitApp /\ [][NextApp]_vars

(***************************************************************************)
(* Two discoveries in flight at once.  The launched service is up at the   *)
(* first poll, so that the poll loop is left at its first iteration.       *)
(***************************************************************************)
\* the runs of the status command that report a running service
RunsUp ==
    {run \in StatusRuns :
        StatusResults[run].isRunning /\ StatusResults[run].endpoint # NoEndpoint}

\* the cache file is missing, or holds an entry written 24 h ago
InitConc ==
    /\ cacheFile \in {CacheMissing,
                      CacheObject(JStr(URL_LOOPBACK_5273), JNum(0))}
    /\ NoCall
    /\ NormIdle
    /\ ParserIdle
    /\ ProbeIdle
    /\ ModelsIdle
    /\ AppIdle /\ MainIdle

NextConc ==
    \/ \E c \in Callers : CallDiscover(c)
    \/ \E c \in Callers, o \in ProbeOutcomes : VerifyCachedDone(c, o)
    \/ \E c \in Callers, run \in StatusRuns : StartCheckDone(c, run)
    \/ \E c \in Callers : GraceDone(c)
    \/ \E c \in Callers, run \in RunsUp : PollDone(c, run)
    \/ \E c \in Callers : SettleDone(c)
    \/ \E c \in Callers, run \in StatusRuns : FinalQueryDone(c, run)
    \/ \E c \in Callers, o \in ProbeOutcomes : FinalVerifyDone(c, o)

SpecConc == InitConc /\ [][NextConc]_vars

(***************************************************************************)
(* startFoundryService with the launch command's exit and callback.        *)
(***************************************************************************)
InitLaunch ==
    /\ cacheFile = CacheMissing
    /\ NoCall /\ NormIdle /\ ParserIdle /\ ProbeIdle /\ ModelsIdle /\ AppIdle /\ MainIdle

NextLaunch ==
    \/ \E c \in Solo : CallStart(c)
    \/ \E c \in Solo, run \in StatusRuns : StartCheckDone(c, run)
    \/ \E c \in Solo : GraceDone(c)
    \/ \E c \in Solo, run \in StatusRuns : PollDone(c, run)
    \/ \E c \in Solo : PollWaitDone(c)
    \/ \E c \in Solo : LaunchExit(c)
    \/ \E c \in Solo : Return(c)

SpecLaunch == InitLaunch /\ [][NextLaunch]_vars

(***************************************************************************)
(* main.js: initializeFoundryService, which runs once when the application *)
(* starts, beside the set-foundry-endpoint and get-foundry-config          *)
(* handlers.  The run uses the frame of one caller for its two calls; the  *)
(* counters of that caller are not reset between them, so they count over  *)
(* the whole run.  The window is open when a status is sent; the catch     *)
(* block is not modelled, since none of the callees throws.                *)
(***************************************************************************)
\* initializeFoundryService() is called: it calls startFoundryService()
InitializeCall(c) ==
    /\ ipc = "idle"
    /\ pc[c] = "idle"
    /\ ipc' = "start"
    /\ op' = [op EXCEPT ![c] = "start"]
    /\ EnterStart(c)
    /\ UNCHANGED <<normVars, parserVars, probeVars, modelsVars, appVars>>
    /\ UNCHANGED <<clockVars, cacheFile, discoverLocals, startLocals, launches,
                   probes, writes, launchVars, foundryServiceEndpoint,
                   iStartResult, initStatus, configReply>>

\* startFoundryService has returned to initializeFoundryService, which logs
\* the outcome and calls discoverFoundryService(): the cache is read, and
\* the cached endpoint is probed or startFoundryService is entered again
InitializeStarted(c) ==
    /\ ipc = "start"
    /\ op[c] = "start" /\ pc[c] = "done"
    /\ iStartResult' = startResult[c]
    /\ ipc' = "discover"
    /\ op' = [op EXCEPT ![c] = "discover"]
    /\ statusResult' = [statusResult EXCEPT ![c] = Unset]
    /\ retryCount' = [retryCount EXCEPT ![c] = 0]
    /\ startResult' = [startResult EXCEPT ![c] = Unset]
    /\ waited' = [waited EXCEPT ![c] = 0]
    /\ LET cached == readCachedEndpoint(cacheFile, now)
       IN  /\ cachedEndpoint' = [cachedEndpoint EXCEPT ![c] = Val(cached)]
           /\ IF cached # NoEndpoint
              THEN /\ probes' = [probes EXCEPT ![c] = @ + 1]
                   /\ pc' = [pc EXCEPT ![c] = "verifyCached"]
                   /\ UNCHANGED queries
              ELSE /\ EnterStart(c)
                   /\ UNCHANGED probes
    /\ UNCHANGED <<normVars, parserVars, probeVars, modelsVars, appVars>>
    /\ UNCHANGED <<clockVars, cacheFile, cachedValid, cliResult, isValid, result,
                   launches, writes, launchCmd, foundryServiceEndpoint,
                   initStatus, configReply>>

\* discoverFoundryService has returned to initializeFoundryService: without
\* an endpoint 'failed' is sent and the run ends, with one the endpoint is
\* recorded and getAvailableModels awaited
InitializeDiscovered(c) ==
    /\ ipc = "discover"
    /\ op[c] = "discover" /\ pc[c] = "done"
    /\ IF result[c].v.endpoint = NoEndpoint
       THEN /\ initStatus' = "failed"
            /\ ipc' = "done"
            /\ UNCHANGED foundryServiceEndpoint
       ELSE /\ foundryServiceEndpoint' = result[c].v.endpoint
            /\ ipc' = "models"
            /\ UNCHANGED initStatus
    /\ UNCHANGED <<normVars, parserVars, probeVars, modelsVars, appVars>>
    /\ UNCHANGED <<clockVars, cacheFile, pc, op, discoverLocals, startLocals,
                   counters, launchVars, iStartResult, configReply>>

\* getAvailableModels has resolved, with models or with none: 'ready' is sent
InitializeModelsDone ==
    /\ ipc = "models"
    /\ initStatus' = "ready"
    /\ ipc' = "done"
    /\ UNCHANGED <<normVars, parserVars, probeVars, modelsVars, appVars>>
    /\ UNCHANGED <<clockVars, cacheFile, pc, op, discoverLocals, startLocals,
                   counters, launchVars, foundryServiceEndpoint, iStartResult,
                   configReply>>

\* customServiceEndpoint || foundryServiceEndpoint
currentEndpoint ==
    IF customServiceEndpoint # NoEndpoint THEN customServiceEndpoint
    ELSE foundryServiceEndpoint

\* get-foundry-config answering with the auto-discovered endpoint first
GetFoundryConfig_AutoFirst ==
    /\ configReply' =
          Val([autoDiscovered |-> foundryServiceEndpoint,
               custom |-> customServiceEndpoint,
               currentEndpoint |->
                   IF foundryServiceEndpoint # NoEndpoint
                   THEN foundryServiceEndpoint ELSE customServiceEndpoint])
    /\ UNCHANGED <<normVars, parserVars, probeVars, modelsVars, appVars>>
    /\ UNCHANGED <<clockVars, cacheFile, pc, op, discoverLocals, startLocals,
                   counters, launchVars, foundryServiceEndpoint, ipc,
                   iStartResult, initStatus>>

\* the get-foundry-config handler
GetFoundryConfig ==
    /\ configReply' =
          Val([autoDiscovered |-> foundryServiceEndpoint,
               custom |-> customServiceEndpoint,
               currentEndpoint |-> currentEndpoint])
    /\ UNCHANGED <<normVars, parserVars, probeVars, modelsVars, appVars>>
    /\ UNCHANGED <<clockVars, cacheFile, pc, op, discoverLocals, startLocals,
                   counters, launchVars, foundryServiceEndpoint, ipc,
                   iStartResult, initStatus>>

InitInit ==
    /\ cacheFile \in {CacheMissing,
                       CacheObject(JStr(URL_LOOPBACK_5273), JNum(CACHE_TTL))}
    /\ NoCall /\ NormIdle /\ ParserIdle /\ ProbeIdle /\ ModelsIdle
    /\ AppIdle /\ MainIdle

NextInit ==
    \/ \E c \in Solo : InitializeCall(c)
    \/ \E c \in Solo : InitializeStarted(c)
    \/ \E c \in Solo : InitializeDiscovered(c)
    \/ InitializeModelsDone
    \/ \E c \in Solo, o \in ProbeOutcomes : VerifyCachedDone(c, o)
    \/ \E c \in Solo, run \in StatusRuns : StartCheckDone(c, run)
    \/ \E c \in Solo : GraceDone(c)
    \/ \E c \in Solo, run \in StatusRuns : PollDone(c, run)
    \/ \E c \in Solo : PollWaitDone(c)
    \/ \E c \in Solo : SettleDone(c)
    \/ \E c \in Solo, run \in StatusRuns : FinalQueryDone(c, run)
    \/ \E c \in Solo, o \in ProbeOutcomes : FinalVerifyDone(c, o)

SpecInit == InitInit /\ [][NextInit]_vars

\* the handlers before initializeFoundryService has run, after it has failed
\* and after it has recorded an endpoint
InitHandlers ==
    /\ cacheFile \in {CacheMissing,
                       CacheObject(JStr(URL_LOOPBACK_5273), JNum(CACHE_TTL))}
    /\ NoCall /\ NormIdle /\ ParserIdle /\ ProbeIdle /\ ModelsIdle
    /\ AppIdle
    /\ iStartResult = Unset
    /\ configReply = Unset
    /\ \/ ipc = "idle" /\ initStatus = "none"
          /\ foundryServiceEndpoint = NoEndpoint
       \/ ipc = "done" /\ initStatus = "failed"
          /\ foundryServiceEndpoint = NoEndpoint
       \/ ipc = "done" /\ initStatus = "ready"
          /\ foundryServiceEndpoint \in {URL_LOOPBACK_5273, URL_LOCALHOST_V1}

NextMain ==
    \/ \E endpoint \in SetEndpointInputs : SetEndpoint(endpoint)
    \/ \E o \in ProbeOutcomes : SetEndpointVerified(o)
    \/ GetFoundryConfig
    \/ \E d \in TickSteps : Tick(d)

SpecMain == InitHandlers /\ [][NextMain]_vars

(***************************************************************************)
(* Properties                                                              *)
(***************************************************************************)
\* the status result has isRunning = true and a non-empty endpoint
Running(r) == r.isRunning /\ r.endpoint # NoEndpoint

\* the call has issued the final status query of discoverFoundryService
FinalQueryIssued(c) ==
    \/ pc[c] \in {"finalQuery", "finalVerify"}
    \/ pc[c] = "done" /\ op[c] = "discover" /\ startResult[c].set

\* startFoundryService has returned in the call
StartReturned(c) == startResult[c].set

\* C1: fast path. In discoverFoundryService, when readCachedEndpoint
\* returned an endpoint and the probe of that endpoint succeeded, the call
\* has terminated Ready (isRunning = true, endpoint = the cached value), and
\* it has issued no launch command and no status query.
C1_FastPath ==
    \A c \in Callers :
        (op[c] = "discover" /\ cachedValid[c] = Val(TRUE)) =>
            /\ cachedEndpoint[c].v # NoEndpoint
            /\ pc[c] = "done"
            /\ result[c] = Val(DiscoveryResult(cachedEndpoint[c].v, NoPort, TRUE))
            /\ launches[c] = 0
            /\ queries[c] = 0

C1_Witness ==
    \E c \in Callers :
        /\ pc[c] = "done"
        /\ cachedValid[c] = Val(TRUE)
        /\ result[c].v.isRunning

\* C2: when the first status query of startFoundryService reports
\* isRunning = true with a non-empty endpoint, the call returns
\* wasAlreadyRunning = true (started = false) and no launch command is issued
\* in that call; so a discovery that found no cached endpoint and whose
\* first status query reports running has issued zero launch commands
\* whenever it is Ready.
C2_AlreadyRunning ==
    \A c \in Callers :
        /\ (statusResult[c].set /\ retryCount[c] = 0
                /\ Running(statusResult[c].v)) =>
              /\ StartReturned(c)
              /\ startResult[c].v.wasAlreadyRunning
              /\ ~startResult[c].v.started
              /\ launches[c] = 0
        /\ (StartReturned(c) /\ startResult[c].v.wasAlreadyRunning) =>
              /\ launches[c] = 0
              /\ retryCount[c] = 0
              /\ Running(statusResult[c].v)

C2_Witness ==
    \E c \in Callers :
        /\ op[c] = "discover" /\ pc[c] = "done"
        /\ cachedEndpoint[c] = Val(NoEndpoint)
        /\ startResult[c].set /\ startResult[c].v.wasAlreadyRunning
        /\ result[c].v.isRunning
        /\ launches[c] = 0

C4_PollerSuccess ==
    \A c \in Callers :
        /\ (retryCount[c] >= 1 /\ statusResult[c].set
                /\ Running(statusResult[c].v)) =>
              /\ StartReturned(c)
              /\ startResult[c].v =
                    StartOutcome(TRUE, FALSE,
                                 MSG_STARTED(statusResult[c].v.endpoint))
              /\ launches[c] = 1
              /\ pc[c] \notin {"startCheck", "grace", "poll", "pollWait"}
              /\ queries[c] = 1 + retryCount[c]
                                + (IF FinalQueryIssued(c) THEN 1 ELSE 0)
        /\ (StartReturned(c) /\ startResult[c].v.started) =>
              /\ retryCount[c] >= 1
              /\ Running(statusResult[c].v)

C4_Witness ==
    \E c \in Callers :
        /\ StartReturned(c) /\ startResult[c].v.started
        /\ retryCount[c] > 1
        /\ pc[c] = "done"

\* the value startFoundryService returns on a soft timeout
SoftTimeout(c) ==
    /\ StartReturned(c)
    /\ ~startResult[c].v.started
    /\ ~startResult[c].v.wasAlreadyRunning

\* C5: the soft timeout is tolerated. When the launch-and-poll cycle
\* returned started = false and wasAlreadyRunning = false,
\* discoverFoundryService does not return before it has performed one
\* further status query and, if that gave an endpoint, one probe of it; it
\* returns Ready with that endpoint if the probe succeeds.
C5_SoftTimeoutTolerated ==
    \A c \in Callers :
        (op[c] = "discover" /\ pc[c] = "done" /\ SoftTimeout(c)) =>
            /\ cliResult[c].set
            /\ queries[c] = 62
            /\ (cliResult[c].v.endpoint # NoEndpoint) =>
                  /\ isValid[c].set
                  /\ probes[c] =
                        1 + (IF cachedEndpoint[c].v # NoEndpoint THEN 1 ELSE 0)
            /\ (isValid[c] = Val(TRUE)) =>
                  result[c] = Val(DiscoveryResult(cliResult[c].v.endpoint,
                                                  cliResult[c].v.port, TRUE))

C5_Witness ==
    \E c \in Callers :
        /\ op[c] = "discover" /\ pc[c] = "done" /\ SoftTimeout(c)
        /\ isValid[c] = Val(TRUE)
        /\ result[c].v.isRunning

\* C6: verification failure. When the final status query gave an endpoint E
\* and the probe of E fails, discoverFoundryService returns endpoint = E
\* (and the port of the query) with isRunning = false, and the step leaves
\* the cache file as it was.
C6_VerificationFailure ==
    [][\A c \in Callers :
          (pc[c] = "finalVerify" /\ isValid'[c] = Val(FALSE)) =>
              /\ pc'[c] = "done"
              /\ cliResult[c].v.endpoint # NoEndpoint
              /\ result'[c] = Val(DiscoveryResult(cliResult[c].v.endpoint,
                                                  cliResult[c].v.port, FALSE))
              /\ cacheFile' = cacheFile
              /\ writes'[c] = 0]_vars

C6_Witness ==
    \E c \in Callers :
        /\ pc[c] = "done"
        /\ isValid[c] = Val(FALSE)
        /\ result[c].v.endpoint # NoEndpoint
        /\ ~result[c].v.isRunning

\* C7: query failure. When the final status query of discoverFoundryService
\* gives no endpoint, the call returns endpoint = none with
\* isRunning = false, issues no probe and leaves the cache file as it was.
C7_QueryFailure ==
    [][\A c \in Callers :
          (pc[c] = "finalQuery" /\ cliResult'[c].set
                /\ cliResult'[c].v.endpoint = NoEndpoint) =>
              /\ pc'[c] = "done"
              /\ result'[c].set
              /\ result'[c].v.endpoint = NoEndpoint
              /\ ~result'[c].v.isRunning
              /\ probes'[c] = probes[c]
              /\ ~isValid'[c].set
              /\ cacheFile' = cacheFile
              /\ writes'[c] = 0]_vars

C7_Witness ==
    \E c \in Callers :
        /\ pc[c] = "done"
        /\ cliResult[c].set
        /\ cliResult[c].v.endpoint = NoEndpoint
        /\ result[c] = Val(DiscoveryResult(NoEndpoint, NoPort, FALSE))

WrittenEntry(file) ==
    /\ file.kind = "object"
    /\ file.endpoint.t = "string" /\ file.endpoint.s # <<>>
    /\ file.timestamp.t = "number"

\* C9: cache freshness. For an entry written at time T, the
\* readCachedEndpoint of a discovery called at time t returns the stored
\* endpoint when t - T < 24 h and none when t - T >= 24 h, whatever the
\* entry's endpoint is.
C9_CacheFreshness ==
    [][\A c \in Callers :
          (pc[c] = "idle" /\ op'[c] = "discover" /\ WrittenEntry(cacheFile)) =>
              cachedEndpoint'[c] =
                  Val(IF now - cacheFile.timestamp.n < 86400000
                      THEN cacheFile.endpoint.s
                      ELSE NoEndpoint)]_vars

\* a discovery has just read an entry that is exactly 24 h old as absent
C9_Witness ==
    \E c \in Callers :
        /\ op[c] = "discover"
        /\ pc[c] = "startCheck"
        /\ cachedEndpoint[c] = Val(NoEndpoint)
        /\ WrittenEntry(cacheFile)
        /\ now - cacheFile.timestamp.n = 86400000

NormInputParts == CHOOSE p \in NormParts : NormText(p) = normInput

\* C17: normalizeEndpoint returns the origin with the scheme forced to
\* http: for every input with scheme https that parses as a URL, with or
\* without a path or a trailing slash, the result is "http://", the host and
\* the port of the input, and no path (normalize("https://h:443/some/path/")
\* = "http://h:443").
C17_ForcesHttp ==
    (/\ normOnce.set
     /\ NormInputParts.scheme = HTTPS \o <<":", "/", "/">>
     /\ ParseURL(normInput).ok) =>
        normOnce.v = HTTP \o <<":", "/", "/">> \o NormInputParts.host
                        \o NormInputParts.port

\* C18: normalizeEndpoint is idempotent: for every non-empty input, the
\* inputs that do not parse as a URL and go through the textual fallback
\* included, normalize(normalize(x)) = normalize(x).
C18_Idempotent ==
    normTwice.set => normTwice.v = normOnce.v

\* the status command printed a JSON object that has a number as its port
JsonWithPort ==
    /\ cliParsed.set
    /\ ~cliRun.failed
    /\ cliRun.json.kind = "object"
    /\ cliRun.json.port.t = "number"

\* what the JSON-with-port rule gives for the run
JsonPortRule ==
    /\ cliParsed.v.endpoint = LOOPBACK \o NatToChars(cliRun.json.port.n)
    /\ cliParsed.v.port = cliRun.json.port.n
    /\ cliParsed.v.isRunning <=> \/ cliRun.json.status = JStr(STATUS_RUNNING)
                                 \/ cliRun.json.running = JBool(TRUE)

Contains(s, lit) == \E i \in 1..Len(s) : HasAt(s, i, lit)

\* the first place where s has lit, 0 if none
IndexOf(s, lit) ==
    IF Contains(s, lit)
    THEN CHOOSE i \in 1..Len(s) :
            HasAt(s, i, lit) /\ \A j \in 1..(i - 1) : ~HasAt(s, j, lit)
    ELSE 0

\* http://127.0.0.1:55329
URL_LOOPBACK_55329 == LOOPBACK \o <<"5", "5", "3", "2", "9">>

\* the status command printed a text that is not JSON and contains
\* "running on http://127.0.0.1:55329/openai/status"
TextWithStatusUrl ==
    /\ cliParsed.set
    /\ ~cliRun.failed
    /\ cliRun.json = JSyntaxError
    /\ Contains(cliRun.stdout, TXT_RUNNING_ON)

UrlStartsAt(s, i) ==
    LET j == IF i + 4 <= Len(s) /\ s[i + 4] \in {"s", "S"} THEN i + 5
             ELSE i + 4
    IN  /\ i + 3 <= Len(s)
        /\ s[i] \in {"h", "H"} /\ s[i + 1] \in {"t", "T"}
        /\ s[i + 2] \in {"t", "T"} /\ s[i + 3] \in {"p", "P"}
        /\ HasAt(s, j, <<":", "/", "/">>)
        /\ j + 3 <= Len(s)
        /\ s[j + 3] \notin Spaces

\* the text s has, at i, a colon, then white space or none, then a digit
PortStartsAt(s, i) ==
    /\ s[i] = ":"
    /\ \E j \in (i + 1)..Len(s) :
          s[j] \in Digits /\ \A k \in (i + 1)..(j - 1) : s[k] \in Spaces

\* none of the strategies of the parser applies to the run: no port and no
\* url in a JSON object, no port and no URL in the text
NoStrategy(run) ==
    /\ run.json.kind = "object" =>
          ~Truthy(run.json.port) /\ ~Truthy(run.json.url)
    /\ \A i \in 1..Len(run.stdout) :
          ~PortStartsAt(run.stdout, i) /\ ~UrlStartsAt(run.stdout, i)

\* C16: queryServiceFromCLI returns a result {endpoint, port, isRunning}
\* for every run of the status command, and when the command fails or no
\* strategy matches its output the result is exactly
\* {endpoint: none, port: none, isRunning: false}.
C16_NeverFailsHard ==
    cliParsed.set =>
        /\ cliParsed.v.endpoint \in Seq(STRING)
        /\ cliParsed.v.port \in Nat \cup {NoPort}
        /\ cliParsed.v.isRunning \in BOOLEAN
        /\ DOMAIN cliParsed.v = {"endpoint", "port", "isRunning"}
        /\ (cliRun.failed \/ NoStrategy(cliRun)) =>
              cliParsed.v = QueryResult(NoEndpoint, NoPort, FALSE)

\* a JSON object of another schema has been parsed to the empty result
C16_Witness ==
    /\ cliParsed.set
    /\ ~cliRun.failed
    /\ cliRun.json.kind = "object"
    /\ NoStrategy(cliRun)
    /\ cliParsed.v = QueryResult(NoEndpoint, NoPort, FALSE)

\* the cache file is missing, is not JSON, or lacks an endpoint or a
\* timestamp
Corrupt(file) ==
    \/ file.kind \in {"missing", "garbage"}
    \/ file.kind = "object" /\ (file.endpoint = JUndef \/ file.timestamp = JUndef)

\* C12: a discovery that starts on a cache file that is missing, is not
\* valid JSON or lacks an endpoint or timestamp field reads "none" from it
\* and proceeds as with an empty cache: no probe of a cached endpoint, the
\* first status query of the start procedure is issued, the file is left
\* as it is.
C12_CorruptionIsMiss ==
    [][\A c \in Callers :
         (pc[c] = "idle" /\ pc'[c] # "idle" /\ op'[c] = "discover"
            /\ Corrupt(cacheFile))
         => /\ cachedEndpoint'[c] = Val(NoEndpoint)
            /\ pc'[c] = "startCheck"
            /\ queries'[c] = queries[c] + 1
            /\ probes'[c] = probes[c]
            /\ launches'[c] = launches[c]
            /\ cacheFile' = cacheFile]_vars

\* a discovery has read an entry without endpoint as "none" and is at the
\* first status query
C12_Witness ==
    \E c \in Callers :
        /\ cacheFile = CacheObject(JUndef, JNum(CACHE_TTL))
        /\ op[c] = "discover"
        /\ pc[c] = "startCheck"
        /\ cachedEndpoint[c] = Val(NoEndpoint)

\* C19: a call of verifyEndpoint resolves, with exactly one value that later
\* events of the request do not change: true exactly when the peer returned
\* a response, whatever its status code; false when the url is malformed,
\* and when an error or the timeout ended the request before any response.
C19_ProbeOutcome ==
    /\ [](probeResolved.set => (probeResolved.v <=> probeStatus # 0))
    /\ [](probeReq \notin {"idle", "pending"} => probeResolved.set)
    /\ [](probeReq = "invalid" => probeResolved = Val(FALSE))
    /\ [][probeResolved.set => probeResolved' = probeResolved]_vars
    /\ (probeReq # "idle") ~> probeResolved.set

\* the timeout and then the error event fired for a request without
\* response: resolve was called twice and the promise holds false
C19_Witness ==
    /\ probeReq = "closed"
    /\ probeStatus = 0
    /\ probeCalls = 2
    /\ probeResolved = Val(FALSE)

\* C20: for a service response {data: [r1..rn]} getAvailableModels returns
\* exactly n records in the order received, and record i has id, alias and
\* displayName equal to the id of ri and status "running", whatever alias,
\* displayName or status ri carried.
C20_Decoration ==
    (modelsReq = "ended" /\ modelsBody.kind = "object"
       /\ modelsBody.data = "array"
       /\ \A i \in 1..Len(modelsBody.list) : modelsBody.list[i].t = "object")
    => /\ modelsResolved.set
       /\ Len(modelsResolved.v) = Len(modelsBody.list)
       /\ \A i \in 1..Len(modelsBody.list) :
             /\ modelsResolved.v[i].id = modelsBody.list[i].id
             /\ modelsResolved.v[i].alias = modelsBody.list[i].id
             /\ modelsResolved.v[i].displayName = modelsBody.list[i].id
             /\ modelsResolved.v[i].status = JStr(STATUS_RUNNING)

\* a list of two models, the second with an alias, a display name and a
\* status of its own, has been returned
C20_Witness ==
    /\ modelsReq = "ended"
    /\ modelsBody = BodyData(<<RawModel(JStr(ID_M1), JUndef, JUndef, JUndef,
                                        JUndef),
                               RawModel(JStr(ID_M2), JStr(ALIAS_PHI),
                                        JStr(NAME_PHI), JStr(STATUS_STOPPED),
                                        JStr(OWNER_MS))>>)
    /\ modelsResolved.set
    /\ Len(modelsResolved.v) = 2
    /\ modelsResolved.v[2].alias = JStr(ID_M2)

\* a discovery of caller c terminates Ready through its final probe and
\* writes the endpoint it returns to the cache
ReadyWrite(c) ==
    /\ pc[c] = "finalVerify" /\ pc'[c] = "done"
    /\ result'[c].v.isRunning
    /\ cacheFile' = CacheObject(JStr(result'[c].v.endpoint), JNum(now))

\* the set-foundry-endpoint handler returns after a successful probe: the
\* normalized endpoint is the custom endpoint and is written to the cache
CustomWrite ==
    /\ hpc = "verifying" /\ hpc' = "idle"
    /\ customServiceEndpoint' = hNormalized
    /\ cacheFile' = CacheObject(JStr(hNormalized), JNum(now))

\* C11 as stated: every write to the endpoint cache file is performed by a
\* discoverFoundryService call that is terminating Ready; no other
\* operation, such as setting a custom endpoint, writes it.
C11_Original ==
    [][cacheFile' # cacheFile => \E c \in Callers : ReadyWrite(c)]_vars

\* C11, amended: every write to the endpoint cache file is performed
\* either by a discoverFoundryService call that is terminating Ready
\* through its final probe, or by a set-foundry-endpoint call whose probe
\* of the normalized endpoint succeeded and which makes that endpoint the
\* custom endpoint; a set-foundry-endpoint call that clears the endpoint
\* or whose probe fails leaves the file alone.
C11_CacheWriters ==
    [][/\ cacheFile' # cacheFile =>
            (\E c \in Callers : ReadyWrite(c)) \/ CustomWrite
       /\ (hpc = "verifying" /\ hpc' = "idle"
             /\ customServiceEndpoint' # hNormalized) =>
            cacheFile' = cacheFile
       /\ (hpc = "idle" /\ hpc' = "verifying") => cacheFile' = cacheFile
       /\ (hpc = "verifying" /\ hpc' = "idle"
             /\ customServiceEndpoint' = hNormalized
             /\ customServiceEndpoint # hNormalized) => CustomWrite]_vars

\* "http://localhost:5273"
URL_LOCALHOST_5273 == SubSeq(URL_LOCALHOST_V1, 1, Len(URL_LOCALHOST_V1) - 3)

\* the cache holds the custom endpoint, which no status output reports
C11_Witness ==
    /\ hpc = "idle"
    /\ customServiceEndpoint = URL_LOCALHOST_5273
    /\ cacheFile = CacheObject(JStr(URL_LOCALHOST_5273), JNum(CACHE_TTL))

\* the endpoint text has a "/" after the "//" of its scheme
HasPath(e) ==
    LET k == IndexOf(e, <<":", "/", "/">>)
    IN  k # 0 /\ \E i \in (k + 3)..Len(e) : e[i] = "/"

\* the status command reports the endpoint e as a URL without reading a
\* port from it: in the url field of its JSON, or as a bare URL in its text
ReportedUrl(e) ==
    \E run \in StatusRuns :
        /\ StatusResults[run].endpoint = e
        /\ StatusResults[run].port = NoPort

\* the endpoint stored in the cache file, NoEndpoint if none
StoredEndpoint ==
    IF cacheFile.kind = "object" /\ cacheFile.endpoint # JUndef
    THEN cacheFile.endpoint.s
    ELSE NoEndpoint

\* C13 as stated: after any sequence of discoveries and custom-endpoint
\* settings, the endpoint stored in the cache and the endpoint returned
\* by a cache read is an origin scheme://host[:port] or none, never an
\* endpoint carrying a path.
C13_Original ==
    /\ ~HasPath(StoredEndpoint)
    /\ \A c \in Callers :
          cachedEndpoint[c].set => ~HasPath(cachedEndpoint[c].v)

\* C13, amended: an endpoint written by set-foundry-endpoint never
\* carries a path, and an endpoint stored in or returned from the cache
\* carries a path only when it is a URL that the status command reported
\* as such (JSON url field, or bare URL in its text), which a discovery
\* stores verbatim.
C13_CachedEndpoint ==
    /\ HasPath(StoredEndpoint) => ReportedUrl(StoredEndpoint)
    /\ \A c \in Callers :
          (cachedEndpoint[c].set /\ HasPath(cachedEndpoint[c].v)) =>
              ReportedUrl(cachedEndpoint[c].v)
    /\ ~HasPath(hNormalized)
    /\ ~HasPath(customServiceEndpoint)

\* a discovery has read from the cache a URL with the path /v1, while the
\* custom endpoint set from the same URL is its origin
C13_Witness ==
    /\ customServiceEndpoint = URL_LOCALHOST_5273
    /\ \E c \in Callers : cachedEndpoint[c] = Val(URL_LOCALHOST_V1)

\* the body is a JSON object whose data is a sequence of records
RecordList(body) ==
    /\ body.kind = "object"
    /\ body.data = "array"
    /\ \A i \in 1..Len(body.list) : body.list[i].t = "object"

\* C21: getAvailableModels always resolves, and it resolves the empty
\* sequence when the endpoint is absent or not a URL, when the request
\* ends with an error or a timeout, and when the body is not JSON or its
\* data field is missing or not a sequence of records.
C21_NeverFails ==
    /\ modelsReq \in {"refused", "ended", "closed", "destroyed"} =>
          modelsResolved.set
    /\ modelsReq = "refused" => modelsResolved = Val(<<>>)
    /\ (modelsReq \in {"closed", "destroyed"} /\ modelsBody.kind = "none") =>
          modelsResolved = Val(<<>>)
    /\ (modelsReq = "ended" /\ ~RecordList(modelsBody)) =>
          modelsResolved = Val(<<>>)

\* v is a value {endpoint, port, isRunning} of discoverFoundryService
IsDiscoveryResult(v) ==
    /\ DOMAIN v = {"endpoint", "port", "isRunning"}
    /\ v.endpoint \in Seq(STRING)
    /\ v.port \in Nat \cup {NoPort}
    /\ v.isRunning \in BOOLEAN
    /\ v.isRunning => v.endpoint # NoEndpoint

\* v is a value {started, wasAlreadyRunning, message} of startFoundryService
IsStartOutcome(v) ==
    /\ DOMAIN v = {"started", "wasAlreadyRunning", "message"}
    /\ v.started \in BOOLEAN
    /\ v.wasAlreadyRunning \in BOOLEAN
    /\ ~(v.started /\ v.wasAlreadyRunning)
    /\ v.message # <<>>

\* C22: whatever the cache file holds, whatever the status command does
\* (output, error, timeout) and whatever the probes give, a call of
\* discoverFoundryService or of startFoundryService that ends has returned
\* a structured result; a startFoundryService inside a discovery has
\* returned one too.
C22_FailuresAreValues ==
    \A c \in Callers :
        /\ (pc[c] = "done" /\ op[c] = "discover") =>
              result[c].set /\ IsDiscoveryResult(result[c].v)
        /\ (pc[c] = "done" /\ op[c] = "start") =>
              startResult[c].set /\ IsStartOutcome(startResult[c].v)
        /\ pc[c] \in {"settle", "finalQuery", "finalVerify"} =>
              startResult[c].set /\ IsStartOutcome(startResult[c].v)

\* a discovery on a cache file that is not JSON, whose final status command
\* failed, has returned the value {endpoint: none, port: none, isRunning:
\* false}
C22_Witness ==
    \E c \in Callers :
        /\ pc[c] = "done" /\ op[c] = "discover"
        /\ cacheFile = CacheGarbage
        /\ cliResult[c] = Val(queryServiceFromCLI(ExecFailed))
        /\ result[c] = Val(DiscoveryResult(NoEndpoint, NoPort, FALSE))

\* the value a discovery returns, as a function of what the call itself
\* read from the cache, was told by its probes and by its final status query
OwnResult(c) ==
    IF cachedEndpoint[c].v # NoEndpoint /\ cachedValid[c] = Val(TRUE)
    THEN DiscoveryResult(cachedEndpoint[c].v, NoPort, TRUE)
    ELSE IF cliResult[c].v.endpoint = NoEndpoint
    THEN DiscoveryResult(NoEndpoint, cliResult[c].v.port, FALSE)
    ELSE DiscoveryResult(cliResult[c].v.endpoint, cliResult[c].v.port,
                         isValid[c].v)

\* the locals and counters of the call of caller c
FrameOf(c) ==
    <<op[c], cachedEndpoint[c], cachedValid[c], statusResult[c], retryCount[c],
      startResult[c], cliResult[c], isValid[c], result[c], launches[c],
      queries[c], probes[c], writes[c]>>

C24_BoundedWork ==
    /\ [](\A c \in Solo :
            (op[c] = "discover") =>
                /\ queries[c] <= 1 + maxRetries + 1
                /\ launches[c] <= 1
                /\ probes[c] <= 2)
    /\ \A c \in Solo :
            (op[c] = "discover" /\ pc[c] # "done")
                ~> (/\ op[c] = "discover" /\ pc[c] = "done"
                    /\ result[c].set
                    /\ IsDiscoveryResult(result[c].v))

C24_Witness ==
    \E c \in Solo :
        /\ op[c] = "discover" /\ pc[c] = "done"
        /\ queries[c] = 62 /\ launches[c] = 1 /\ probes[c] = 2

\* C25: startFoundryService does not wait for the launch command: the step
\* that issues it goes on to the 2 s delay with the command running. A poll
\* query is in flight only after the 2 s delay and one 1 s delay per earlier
\* poll have been awaited. The command's exit and callback change nothing
\* of the call (its position, its locals, its outcome), so a call can return
\* {started: true} while the command is still running.
C25_LaunchOrdering ==
    /\ [](\A c \in Solo :
            /\ (pc[c] = "grace") => (launchCmd[c] # "none" /\ waited[c] = 0)
            /\ (pc[c] = "poll") =>
                  waited[c] = 2000 + 1000 * (retryCount[c] - 1)
            /\ (pc[c] = "pollWait") =>
                  waited[c] = 2000 + 1000 * (retryCount[c] - 1))
    /\ [][\A c \in Solo :
            /\ (launches'[c] = launches[c] + 1) =>
                  (launchCmd'[c] = "running" /\ pc'[c] = "grace")
            /\ (queries'[c] = queries[c] + 1 /\ pc'[c] = "poll") =>
                  \/ pc[c] = "grace" /\ waited'[c] = waited[c] + 2000
                  \/ pc[c] = "pollWait" /\ waited'[c] = waited[c] + 1000
            /\ (launchCmd[c] = "running" /\ launchCmd'[c] = "exited") =>
                  UNCHANGED <<pc, op, startLocals, counters, waited, cacheFile>>
         ]_vars

C25_Witness ==
    \E c \in Solo :
        /\ op[c] = "start" /\ pc[c] = "done"
        /\ startResult[c].v.started
        /\ retryCount[c] = 2 /\ waited[c] = 3000
        /\ launchCmd[c] = "running"

\* the status output was decoded to an object that has the field
HasField(run, field) ==
    ~run.failed /\ run.json.kind = "object" /\ run.json[field] # JUndef

\* C26: the parser's strategies in priority order. An output decoded to an
\* object with a port field gives the loopback endpoint of that port,
\* whether or not it has a url field; one with a url field and no port field
\* gives that url verbatim, port none and isRunning = true; the text is
\* scanned only when the output was not decoded to an object or the object
\* has neither field, and then a scheme://host:port match is preferred to
\* a ":<digits>" match, which is preferred to a bare URL.
C26_StrategyPriority ==
    cliParsed.set =>
        LET r == cliParsed.v
            out == cliRun.stdout
        IN  /\ HasField(cliRun, "port") =>
                  /\ r.port = cliRun.json.port.n
                  /\ r.endpoint = LOOPBACK \o NatToChars(cliRun.json.port.n)
                  /\ r.isRunning = (\/ cliRun.json.status = JStr(STATUS_RUNNING)
                                    \/ cliRun.json.running = JBool(TRUE))
            /\ (HasField(cliRun, "url") /\ ~HasField(cliRun, "port")) =>
                  r = QueryResult(cliRun.json.url.s, NoPort, TRUE)
            /\ (/\ ~cliRun.failed
                /\ ~HasField(cliRun, "port") /\ ~HasField(cliRun, "url")) =>
                  /\ (fullUrlMatch(out) # NoMatch) =>
                        /\ r.endpoint = Matched(out, fullUrlMatch(out))
                        /\ r.isRunning
                  /\ (fullUrlMatch(out) = NoMatch /\ portMatch(out) # NoMatch) =>
                        /\ r.port = CharsToNat(Matched(out, portMatch(out)))
                        /\ r.endpoint = LOOPBACK \o NatToChars(r.port)
                        /\ r.isRunning
                  /\ (/\ fullUrlMatch(out) = NoMatch /\ portMatch(out) = NoMatch
                      /\ urlMatch(out) # NoMatch) =>
                        r = QueryResult(Matched(out, urlMatch(out)), NoPort, TRUE)

\* C27: reading and failing leave the cache file alone. The step that reads
\* the cache at the start of a discovery changes nothing in the file, also
\* when the entry is expired or malformed; the step at which the probe of
\* the cached endpoint fails changes nothing in it; the file changes only
\* at the step where a probe of the queried endpoint succeeds, so a
\* discovery that has terminated Failed has written nothing.
C27_CacheUntouched ==
    /\ [][\A c \in Solo :
            /\ (pc[c] = "idle" /\ pc'[c] # "idle") => cacheFile' = cacheFile
            /\ (pc[c] = "verifyCached" /\ cachedValid'[c] = Val(FALSE)) =>
                  cacheFile' = cacheFile
            /\ (cacheFile' # cacheFile) =>
                  /\ \E d \in Solo : pc[d] = "finalVerify"
                                      /\ isValid'[d] = Val(TRUE)
                                      /\ result'[d].v.isRunning
         ]_vars
    /\ [](\A c \in Solo :
            (op[c] = "discover" /\ pc[c] = "done" /\ ~result[c].v.isRunning) =>
                writes[c] = 0)

C27_Witness ==
    \E c \in Solo :
        /\ op[c] = "discover" /\ pc[c] = "done"
        /\ cachedValid[c] = Val(FALSE)
        /\ ~result[c].v.isRunning
        /\ cacheFile = CacheObject(JStr(URL_LOOPBACK_5273), JNum(CACHE_TTL))

\* the host, port and path that an endpoint text scheme://host[:port][/path]
\* names, read off the text; the port and the path are empty when absent
Written(url) ==
    LET a    == (IF StartsWith(url, HTTPS) THEN 5 ELSE 4) + 4
        e    == RunEndNot(url, a, {"/"})
        auth == SubSeq(url, a, e - 1)
        k    == LastIndexOf(auth, ":")
    IN  [hostname |-> IF k = 0 THEN auth ELSE SubSeq(auth, 1, k - 1),
         port     |-> IF k = 0 THEN <<>> ELSE SubSeq(auth, k + 1, Len(auth)),
         path     |-> SubSeq(url, e, Len(url))]

\* C28: the request that verifyEndpoint issues for an http:// or https://
\* endpoint that names a host goes to the endpoint's own path when that path is non-empty and
\* not "/", and to "/v1/models" otherwise; it goes to the host that the
\* endpoint names and to the port that it names, port 80 when it names none.
C28_ProbeTarget ==
    (/\ probeReq = "pending"
     /\ \/ StartsWith(probeUrl, HTTP \o <<":", "/", "/">>)
        \/ StartsWith(probeUrl, HTTPS \o <<":", "/", "/">>)
     /\ Written(probeUrl).hostname # <<>>) =>
        LET w == Written(probeUrl)
            options == ProbeOptions(probeUrl)
        IN  /\ options.path = IF w.path # <<>> /\ w.path # <<"/">>
                              THEN w.path ELSE V1_MODELS
            /\ options.hostname = w.hostname
            /\ options.port = IF w.port # <<>> THEN w.port ELSE <<"8", "0">>

\* startFoundryService has returned after using up its retry budget
BudgetExhausted(c) ==
    /\ StartReturned(c)
    /\ retryCount[c] = maxRetries
    /\ ~Running(statusResult[c].v)

\* C29 as stated: when the retry budget is used up, the message of the
\* value that startFoundryService returns is "timeout".
C29_Original ==
    \A c \in Solo :
        BudgetExhausted(c) => startResult[c].v.message = <<"timeout">>

\* C29: when the retry budget is used up, startFoundryService returns
\* {started: false, wasAlreadyRunning: false} with the message
\* "Service start timeout - please check manually"; no other return of it
\* carries that message.
C29_TimeoutMessage ==
    \A c \in Solo :
        /\ BudgetExhausted(c) =>
              startResult[c].v = StartOutcome(FALSE, FALSE, MSG_TIMEOUT)
        /\ (StartReturned(c) /\ startResult[c].v.message = MSG_TIMEOUT) =>
              BudgetExhausted(c)

C29_Witness ==
    \E c \in Solo :
        /\ op[c] = "discover" /\ pc[c] = "settle"
        /\ BudgetExhausted(c)
        /\ startResult[c].v.message = MSG_TIMEOUT

ProbedAlive(c, e) ==
    \/ cachedValid[c] = Val(TRUE) /\ cachedEndpoint[c].v = e
    \/ isValid[c] = Val(TRUE) /\ cliResult[c].v.endpoint = e

\* C31: a discovery that has returned has isRunning = true exactly when a
\* liveness probe of the endpoint it returns succeeded during the call; the
\* isRunning flag that the parser gave for the final status query plays no
\* part: the result of the final probe alone decides.
C31_ProbeDecides ==
    \A c \in Solo :
        (op[c] = "discover" /\ pc[c] = "done") =>
            /\ result[c].v.isRunning = ProbedAlive(c, result[c].v.endpoint)
            /\ isValid[c].set =>
                  result[c].v = DiscoveryResult(cliResult[c].v.endpoint,
                                                cliResult[c].v.port,
                                                isValid[c].v)

\* a discovery is Ready although the final status query said "stopped"
C31_Witness ==
    \E c \in Solo :
        /\ op[c] = "discover" /\ pc[c] = "done"
        /\ result[c].v.isRunning
        /\ cliResult[c].set /\ ~cliResult[c].v.isRunning

\* C32: when the status output is decoded to a JSON object whose status
\* field is not "running" and whose running field is not true, the result
\* of queryServiceFromCLI has isRunning = false, whatever else the object
\* holds.
C32_StoppedNeverRunning ==
    (/\ cliParsed.set
     /\ ~cliRun.failed
     /\ cliRun.json.kind = "object"
     /\ cliRun.json.status # JStr(STATUS_RUNNING)
     /\ cliRun.json.running # JBool(TRUE)) =>
        ~cliParsed.v.isRunning

\* C33: initializeFoundryService sends 'ready', and records the
\* auto-discovered endpoint, only when the discovery it awaited returned
\* isRunning = true; a discovery whose final probe failed is never reported
\* as ready.
C33_ReadyOnlyWhenRunning ==
    \A c \in Solo :
        /\ (initStatus = "ready") => result[c].v.isRunning
        /\ (foundryServiceEndpoint # NoEndpoint) => result[c].v.isRunning

\* C34: during one run of initializeFoundryService the launch command is
\* issued at most once, and the budget of maxRetries polls is used up at
\* most once: the two calls of startFoundryService do not both end in the
\* timeout, and no more status queries are run than one first check, one
\* full round of polls, a second first check and the final query.
C34_LaunchOncePollOnce ==
    \A c \in Solo :
        (ipc # "idle") =>
            /\ launches[c] <= 1
            /\ ~(/\ iStartResult.set
                 /\ iStartResult.v.message = MSG_TIMEOUT
                 /\ startResult[c].set
                 /\ startResult[c].v.message = MSG_TIMEOUT)
            /\ queries[c] <= maxRetries + 3

====
